---- MODULE Spec2Model ----
(***************************************************************************)
(* A model of S3Cache (src/src/index.js), the cache-manager store that     *)
(* keeps its entries as objects of an S3 bucket.                           *)
(*                                                                         *)
(* Strings are sequences of code points, byte buffers are sequences of     *)
(* bytes.  Time is the wall clock in milliseconds.  Every S3 request is    *)
(* two steps: the service handles it (one atomic step on the bucket) and   *)
(* the client's callback later receives the response.                      *)
(***************************************************************************)
EXTENDS Integers, Sequences, FiniteSets, TLC

VARIABLES
    options,    \* this.options of the S3Cache instance
    s3,         \* this.s3, the storage client, and how its construction ended
    store,      \* the bucket: physical key -> stored object
    now,        \* the wall clock, milliseconds since the epoch
    calls       \* the calls made on the instance, by position

vars == <<options, s3, store, now, calls>>

-----------------------------------------------------------------------------
(* Bounds of the model.                                                    *)

MaxCalls == 2        \* calls made on the instance in one behaviour
MaxTicks == 1        \* ticks of the clock in one behaviour
TickMs == 500        \* one tick of the clock (milliseconds)
DigestBytes == 2     \* bytes of the stand-in digest (md5 has 16)
PageSize == 2        \* objects in one page of a listing (S3 has 1000)
MaxRounds == 3       \* list requests a service without tokens answers per call

-----------------------------------------------------------------------------
(* Characters and sequences.                                               *)

SLASH == 47
EQUALS == 61
MsPerSecond == 1000
MapLimit == 2        \* async.mapLimit(results, 2, ...) in reset

Min(a, b) == IF a < b THEN a ELSE b

\* String.prototype.slice(begin, end) for 0 <= begin <= end
Slice(s, begin, end) == SubSeq(s, Min(begin, Len(s)) + 1, Min(end, Len(s)))

RECURSIVE Flatten(_)
Flatten(ss) == IF ss = <<>> THEN <<>> ELSE Head(ss) \o Flatten(Tail(ss))

\* Array.prototype.join(sep)
RECURSIVE Join(_, _)
Join(parts, sep) ==
    IF parts = <<>> THEN <<>>
    ELSE IF Len(parts) = 1 THEN parts[1]
    ELSE parts[1] \o sep \o Join(Tail(parts), sep)

\* String.prototype.split('/')
RECURSIVE Split(_)
Split(s) ==
    IF \A i \in 1..Len(s) : s[i] # SLASH THEN <<s>>
    ELSE LET i == CHOOSE j \in 1..Len(s) :
                      s[j] = SLASH /\ \A k \in 1..(j - 1) : s[k] # SLASH
         IN  <<SubSeq(s, 1, i - 1)>> \o Split(SubSeq(s, i + 1, Len(s)))

\* a slip: the key keeps its case
toLowerCaseKept(s) == s

\* String.prototype.toLowerCase() on ASCII text
toLowerCase(s) == [i \in 1..Len(s) |-> IF s[i] \in 65..90 THEN s[i] + 32 ELSE s[i]]

-----------------------------------------------------------------------------
(* JavaScript values: a string, a Buffer, a number, an object, null.       *)

Text(s) == [kind |-> "string", data |-> s]
Bytes(b) == [kind |-> "buffer", data |-> b]
Number(n) == [kind |-> "number", num |-> n]
Object(o) == [kind |-> "object", obj |-> o]
Null == [kind |-> "null"]
Undefined == [kind |-> "undefined"]
False == [kind |-> "false"]
Array(items) == [kind |-> "array", items |-> items]

-----------------------------------------------------------------------------
(* Text and bytes: Buffer.from(string) is the UTF-8 encoding,              *)
(* buffer.toString() the UTF-8 decoding (U+FFFD for a malformed byte).     *)

Utf8Char(c) ==
    IF c < 128 THEN <<c>>
    ELSE IF c < 2048 THEN <<192 + (c \div 64), 128 + (c % 64)>>
    ELSE <<224 + (c \div 4096), 128 + ((c \div 64) % 64), 128 + (c % 64)>>

BufferFrom(s) == Flatten([i \in 1..Len(s) |-> Utf8Char(s[i])])

IsCont(b) == b \in 128..191

RECURSIVE BufferToString(_)
BufferToString(b) ==
    IF b = <<>> THEN <<>>
    ELSE IF b[1] < 128 THEN <<b[1]>> \o BufferToString(Tail(b))
    ELSE IF b[1] \in 194..223 /\ Len(b) >= 2 /\ IsCont(b[2])
         THEN <<(b[1] - 192) * 64 + (b[2] - 128)>> \o BufferToString(SubSeq(b, 3, Len(b)))
    ELSE IF b[1] \in 224..239 /\ Len(b) >= 3 /\ IsCont(b[2]) /\ IsCont(b[3])
              /\ (b[1] - 224) * 4096 + (b[2] - 128) * 64 + (b[3] - 128) >= 2048
         THEN <<(b[1] - 224) * 4096 + (b[2] - 128) * 64 + (b[3] - 128)>>
              \o BufferToString(SubSeq(b, 4, Len(b)))
    ELSE <<65533>> \o BufferToString(Tail(b))

\* Buffer.from(value) throws a TypeError
BufferFromThrows(value) == value.kind \notin {"string", "buffer"}

\* the bytes of a string or a Buffer: Buffer.from(value), hash.write(value)
BytesOf(value) == IF value.kind = "buffer" THEN value.data ELSE BufferFrom(value.data)

\* Number.prototype.toString() of a natural number
RECURSIVE NumberToString(_)
NumberToString(n) ==
    IF n < 10 THEN <<48 + n>> ELSE NumberToString(n \div 10) \o <<48 + (n % 10)>>

\* the text of a value where it is joined or concatenated to a string
toString(value) ==
    CASE value.kind = "string" -> value.data
      [] value.kind = "buffer" -> BufferToString(value.data)
      [] value.kind = "number" -> NumberToString(value.num)

\* buffer.toString('base64')
Base64Char(n) ==
    IF n < 26 THEN 65 + n
    ELSE IF n < 52 THEN 97 + (n - 26)
    ELSE IF n < 62 THEN 48 + (n - 52)
    ELSE IF n = 62 THEN 43 ELSE SLASH

RECURSIVE Base64(_)
Base64(b) ==
    IF b = <<>> THEN <<>>
    ELSE IF Len(b) = 1
         THEN <<Base64Char(b[1] \div 4), Base64Char((b[1] % 4) * 16), EQUALS, EQUALS>>
    ELSE IF Len(b) = 2
         THEN <<Base64Char(b[1] \div 4),
                Base64Char((b[1] % 4) * 16 + (b[2] \div 16)),
                Base64Char((b[2] % 16) * 4), EQUALS>>
    ELSE <<Base64Char(b[1] \div 4),
           Base64Char((b[1] % 4) * 16 + (b[2] \div 16)),
           Base64Char((b[2] % 16) * 4 + (b[3] \div 64)),
           Base64Char(b[3] % 64)>> \o Base64(SubSeq(b, 4, Len(b)))

\* buffer.toString('hex')
HexChar(n) == IF n < 10 THEN 48 + n ELSE 97 + (n - 10)
Hex(b) == Flatten([i \in 1..Len(b) |-> <<HexChar(b[i] \div 16), HexChar(b[i] % 16)>>])

-----------------------------------------------------------------------------
(* checksum(key, {algorithm, encoding}): the digest of the key's bytes,    *)
(* rendered in the encoding.  The digest is a stand-in for the OpenSSL     *)
(* digests: a polynomial hash of DigestBytes bytes, seeded by algorithm.   *)

RECURSIVE HashFold(_, _)
HashFold(h, b) ==
    IF b = <<>> THEN h
    ELSE HashFold((h * 31 + b[1]) % (256 ^ DigestBytes), Tail(b))

Digest(bytes, algorithm) ==
    LET h == HashFold(IF algorithm = "md5" THEN 7 ELSE 11, bytes)
    IN  [i \in 1..DigestBytes |-> (h \div (256 ^ (DigestBytes - i))) % 256]

checksum(key, algorithm, encoding) ==
    IF encoding = "base64" THEN Base64(Digest(BytesOf(key), algorithm))
    ELSE Hex(Digest(BytesOf(key), algorithm))

-----------------------------------------------------------------------------
(* path.join(a, b) of Node's posix path module.                            *)

RECURSIVE normalizeString(_, _, _)
normalizeString(segs, res, allowAboveRoot) ==
    IF segs = <<>> THEN res
    ELSE LET s == Head(segs)
             dot == <<46>>
             dotdot == <<46, 46>>
         IN  IF s = <<>> \/ s = dot
             THEN normalizeString(Tail(segs), res, allowAboveRoot)
             ELSE IF s = dotdot
             THEN IF res # <<>> /\ res[Len(res)] # dotdot
                  THEN normalizeString(Tail(segs), SubSeq(res, 1, Len(res) - 1), allowAboveRoot)
                  ELSE IF allowAboveRoot
                  THEN normalizeString(Tail(segs), Append(res, dotdot), allowAboveRoot)
                  ELSE normalizeString(Tail(segs), res, allowAboveRoot)
             ELSE normalizeString(Tail(segs), Append(res, s), allowAboveRoot)

PathNormalize(p) ==
    IF p = <<>> THEN <<46>>
    ELSE LET isAbsolute == p[1] = SLASH
             trailingSeparator == p[Len(p)] = SLASH
             body == Join(normalizeString(Split(p), <<>>, ~isAbsolute), <<SLASH>>)
             body1 == IF body = <<>> /\ ~isAbsolute THEN <<46>> ELSE body
             body2 == IF body1 # <<>> /\ trailingSeparator THEN body1 \o <<SLASH>> ELSE body1
         IN  IF isAbsolute THEN <<SLASH>> \o body2 ELSE body2

PathJoin(a, b) ==
    LET joined == IF a = <<>> THEN b
                  ELSE IF b = <<>> THEN a
                  ELSE a \o <<SLASH>> \o b
    IN  PathNormalize(joined)

\* path.format(path.parse(str)) of Node's posix path module: the trailing
\* slashes are dropped, the directory and the base are joined again
RECURSIVE StripTrailingSlashes(_)
StripTrailingSlashes(p) ==
    IF Len(p) > 1 /\ p[Len(p)] = SLASH THEN StripTrailingSlashes(SubSeq(p, 1, Len(p) - 1))
    ELSE p

PathParseFormat(str) ==
    IF str = <<>> THEN <<>>
    ELSE LET p == StripTrailingSlashes(str)
             slashes == {i \in 1..Len(p) : p[i] = SLASH}
             last == IF slashes = {} THEN 0
                     ELSE CHOOSE i \in slashes : \A j \in slashes : j <= i
             base == SubSeq(p, last + 1, Len(p))
             dir == IF last = 0 THEN <<>>
                    ELSE IF last = 1 THEN <<SLASH>>
                    ELSE SubSeq(p, 1, last - 1)
         IN  IF dir = <<>> THEN base
             ELSE IF dir = <<SLASH>> /\ p[1] = SLASH THEN dir \o base
             ELSE dir \o <<SLASH>> \o base

-----------------------------------------------------------------------------
(* url.parse, querystring.parse, querystring.stringify and url.format of   *)
(* Node, on relative references: a path, a query after the first '?' and   *)
(* a fragment after the first '#', without '%' escapes in the input.       *)

\* String.prototype.indexOf(ch) + 1: the first position of ch in s, or 0
IndexOf(s, ch) ==
    IF \A i \in 1..Len(s) : s[i] # ch THEN 0
    ELSE CHOOSE i \in 1..Len(s) : s[i] = ch /\ \A j \in 1..(i - 1) : s[j] # ch

\* String.prototype.split(ch), without the empty pieces
RECURSIVE Pieces(_, _)
Pieces(s, ch) ==
    IF s = <<>> THEN <<>>
    ELSE LET i == IndexOf(s, ch)
         IN  IF i = 0 THEN <<s>>
             ELSE IF i = 1 THEN Pieces(Tail(s), ch)
             ELSE <<SubSeq(s, 1, i - 1)>> \o Pieces(SubSeq(s, i + 1, Len(s)), ch)

\* url.parse(str): the fragment is cut at the first '#', the query at the first
\* '?' before it; search is null when there is no '?'
UrlParse(str) ==
    LET h == IndexOf(str, 35)
        rest == IF h = 0 THEN str ELSE SubSeq(str, 1, h - 1)
        q == IndexOf(rest, 63)
    IN  [ pathname |-> IF q = 0 THEN rest ELSE SubSeq(rest, 1, q - 1),
          search |-> IF q = 0 THEN Null ELSE Text(SubSeq(rest, q, Len(rest))),
          hash |-> IF h = 0 THEN <<>> ELSE SubSeq(str, h, Len(str)) ]

\* url.format(request): a search without its leading '?' is given one
UrlFormat(request) ==
    LET search == IF request.search = Null THEN <<>> ELSE request.search.data
    IN  request.pathname
        \o (IF search # <<>> /\ search[1] # 63 THEN <<63>> \o search ELSE search)
        \o request.hash

\* querystring.unescape on input without '%': a '+' is a space
QsUnescape(s) == [i \in 1..Len(s) |-> IF s[i] = 43 THEN 32 ELSE s[i]]

\* querystring.escape on ASCII: letters, digits and - _ . ! ~ * ' ( ) are kept,
\* every other character becomes %XX
UpperHexChar(n) == IF n < 10 THEN 48 + n ELSE 65 + (n - 10)
QsEscapeChar(c) ==
    IF c \in 48..57 \/ c \in 65..90 \/ c \in 97..122
       \/ c \in {45, 95, 46, 33, 126, 42, 39, 40, 41}
    THEN <<c>>
    ELSE <<37, UpperHexChar(c \div 16), UpperHexChar(c % 16)>>
QsEscape(s) == Flatten([i \in 1..Len(s) |-> QsEscapeChar(s[i])])

\* the name and the value of one piece of a query: the '=' is optional
QsName(piece) ==
    LET e == IndexOf(piece, EQUALS)
    IN  QsUnescape(IF e = 0 THEN piece ELSE SubSeq(piece, 1, e - 1))
QsValue(piece) ==
    LET e == IndexOf(piece, EQUALS)
    IN  QsUnescape(IF e = 0 THEN <<>> ELSE SubSeq(piece, e + 1, Len(piece)))

\* querystring.parse(qs): name -> its values, in the order of the query
RECURSIVE ValuesOf(_, _)
ValuesOf(pieces, name) ==
    IF pieces = <<>> THEN <<>>
    ELSE (IF QsName(Head(pieces)) = name THEN <<QsValue(Head(pieces))>> ELSE <<>>)
         \o ValuesOf(Tail(pieces), name)

QsParse(qs) ==
    LET pieces == Pieces(qs, 38)
    IN  [name \in {QsName(pieces[i]) : i \in 1..Len(pieces)} |-> ValuesOf(pieces, name)]

\* querystring.stringify({[name]: values}): name=value, once for every value
QsStringify(name, values) ==
    Join([i \in 1..Len(values) |-> QsEscape(name) \o <<EQUALS>> \o QsEscape(values[i])],
         <<38>>)

\* the default order of Array.prototype.sort(): by code unit
RECURSIVE Before(_, _)
Before(a, b) ==
    IF b = <<>> THEN FALSE
    ELSE IF a = <<>> THEN TRUE
    ELSE IF a[1] # b[1] THEN a[1] < b[1]
    ELSE Before(Tail(a), Tail(b))

RECURSIVE SortNames(_)
SortNames(names) ==
    IF names = {} THEN <<>>
    ELSE LET first == CHOOSE a \in names : \A b \in names \ {a} : Before(a, b)
         IN  <<first>> \o SortNames(names \ {first})

-----------------------------------------------------------------------------
(* Options.                                                                *)

defaultOptions ==
    [ ttl |-> 0,
      ttlUnits |-> "seconds",
      pathPrefix |-> <<>>,
      stringifyResponses |-> TRUE,
      folderPathDepth |-> 2,
      folderPathChunkSize |-> 2,
      checksumAlgorithm |-> "md5",
      checksumEncoding |-> "hex",
      normalizeLowercase |-> FALSE,
      parseKeyAsPath |-> FALSE,
      normalizePath |-> TRUE,
      parseKeyAsUrl |-> FALSE,
      normalizeUrl |-> TRUE,
      proactiveExpiry |-> FALSE ]

\* Object.assign({}, a, b)
Assign(a, b) ==
    [f \in (DOMAIN a) \cup (DOMAIN b) |-> IF f \in DOMAIN b THEN b[f] ELSE a[f]]

\* no options argument (undefined)
NoOptions == [f \in {} |-> TRUE]

-----------------------------------------------------------------------------
(* The constructor.  The s3Options given to it are a JavaScript value: an  *)
(* object, or something else by mistake.                                   *)

\* the parameters the tests construct their instances with
keyParams == [accessKey |-> <<97>>, secretKey |-> <<98>>, bucket |-> <<99>>]

\* a slip: an empty parameter passes
validateOptionThrowsIfMissing(self, param) == param \notin DOMAIN self

\* validateOption(param) throws: the parameter is missing or falsy
validateOptionThrows(self, param) == param \notin DOMAIN self \/ self[param] = <<>>

\* typeof value === 'object'
TypeofObject(value) == value.kind \in {"object", "array", "buffer", "null"}

\* the constructor throws on this.options = self
constructorThrows(self) ==
    \/ validateOptionThrows(self, "accessKey")
    \/ validateOptionThrows(self, "secretKey")
    \/ validateOptionThrows(self, "bucket")
    \/ /\ "s3Options" \in DOMAIN self
       /\ ~TypeofObject(self.s3Options) \/ self.s3Options = Null

\* this.options.s3Options after the manual merge of its params
mergedS3Options(self) ==
    LET given == self.s3Options.obj
    IN  IF "params" \in DOMAIN given
        THEN [given EXCEPT !.params = Assign([Bucket |-> self.bucket], given.params)]
        ELSE given

\* a slip: s3Options are assigned without the merge of params
constructorOptionsShallow(self) ==
    LET base == [ accessKeyId |-> self.accessKey,
                  secretAccessKey |-> self.secretKey,
                  params |-> [Bucket |-> self.bucket] ]
    IN  IF "s3Options" \in DOMAIN self THEN Assign(base, self.s3Options.obj) ELSE base

\* the constructorOptions handed to new S3(...)
constructorOptions(self) ==
    LET base == [ accessKeyId |-> self.accessKey,
                  secretAccessKey |-> self.secretKey,
                  params |-> [Bucket |-> self.bucket] ]
    IN  IF "s3Options" \in DOMAIN self THEN Assign(base, mergedS3Options(self)) ELSE base

\* this.options once the constructor has returned
thisOptions(self) ==
    IF "s3Options" \in DOMAIN self
    THEN [self EXCEPT !.s3Options = Object(mergedS3Options(self))]
    ELSE self

\* no instance yet
NoClient == [state |-> "none", config |-> NoOptions, given |-> NoOptions]

\* new S3Cache(given): this.options is assigned first; then the constructor
\* throws, or creates the client (given is kept for the properties only)
construct(given) ==
    /\ s3.state = "none"
    /\ LET self == Assign(defaultOptions, given)
       IN  IF constructorThrows(self)
           THEN /\ options' = self
                /\ s3' = [state |-> "thrown", config |-> NoOptions, given |-> given]
           ELSE /\ options' = thisOptions(self)
                /\ s3' = [state |-> "client", config |-> constructorOptions(self),
                          given |-> given]
    /\ UNCHANGED <<store, now, calls>>

\* the caller constructs a further instance from the options it passed before,
\* with another bucket: its s3Options are the same object, as the constructions
\* so far have left it (this.options.s3Options is that object)
constructNext(bucket) ==
    /\ s3.state = "client"
    /\ bucket # s3.given.bucket
    /\ LET given == IF "s3Options" \in DOMAIN s3.given
                    THEN [s3.given EXCEPT !.bucket = bucket,
                                          !.s3Options = options.s3Options]
                    ELSE [s3.given EXCEPT !.bucket = bucket]
           self == Assign(defaultOptions, given)
       IN  /\ options' = thisOptions(self)
           /\ s3' = [state |-> "client", config |-> constructorOptions(self),
                     given |-> given]
    /\ UNCHANGED <<store, now, calls>>

\* the instance is the one new S3Cache(given) has built
Constructed(given) ==
    LET self == Assign(defaultOptions, given)
    IN  /\ options = thisOptions(self)
        /\ s3 = [state |-> "client", config |-> constructorOptions(self), given |-> given]

\* a slip: the query parameters keep their order
normalizeUrlUnsorted(str, opts) == UrlFormat(UrlParse(str))

\* S3Cache._normalizeUrl(str, options)
normalizeUrl(str, opts) ==
    LET request == UrlParse(str)
    IN  IF opts.normalizeUrl /\ request.search # Null
        THEN LET params == QsParse(Tail(request.search.data))
                 names == SortNames(DOMAIN params)
             IN  UrlFormat([request EXCEPT !.search =
                     Text(Join([i \in 1..Len(names) |->
                                   QsStringify(names[i], params[names[i]])], <<38>>))])
        ELSE UrlFormat(request)

\* S3Cache._normalizePath(str, options)
normalizePath(str, opts) ==
    LET loc == PathParseFormat(str)
    IN  IF opts.normalizePath THEN PathNormalize(loc) ELSE loc

\* S3Cache._getPath(pathName, options) throws a TypeError: the key has no
\* toLowerCase, is no string for url.parse or path.parse, is refused by the hash
\* or by Buffer.from, or has no slice
GetPathThrows(pathName, opts) ==
    IF opts.normalizeLowercase \/ opts.parseKeyAsUrl \/ opts.parseKeyAsPath
    THEN pathName.kind # "string"
    ELSE IF opts.checksumAlgorithm # "none" \/ opts.checksumEncoding = "base64"
    THEN pathName.kind \notin {"string", "buffer"}
    ELSE opts.folderPathDepth > 0 /\ pathName.kind \notin {"string", "buffer"}

\* _getPath up to the checksum: the key after the normalization the options ask for
Normalized(pathName, opts) ==
    LET key1 == IF opts.normalizeLowercase THEN Text(toLowerCase(pathName.data))
                ELSE pathName
    IN  IF opts.parseKeyAsUrl THEN Text(normalizeUrl(key1.data, opts))
        ELSE IF opts.parseKeyAsPath THEN Text(normalizePath(key1.data, opts))
        ELSE key1

\* _getPath, the checksum step: the digest of the key, its base64 form, or the key
PostChecksum(key1, opts) ==
    IF opts.checksumAlgorithm # "none"
    THEN Text(checksum(key1, opts.checksumAlgorithm, opts.checksumEncoding))
    ELSE IF opts.checksumEncoding = "base64"
    THEN Text(Base64(BytesOf(key1)))
    ELSE key1

\* a slip: every chunk is cut from the start of the key
urlChunksFromStart(key2, opts) ==
    [d \in 1..opts.folderPathDepth |->
        toString([key2 EXCEPT !.data = Slice(key2.data, 0, opts.folderPathChunkSize)])]

\* _getPath, the folder structure: key.slice(begin, end) for every depth
urlChunks(key2, opts) ==
    [d \in 1..opts.folderPathDepth |->
        toString([key2 EXCEPT !.data =
            Slice(key2.data, (d - 1) * opts.folderPathChunkSize,
                             (d - 1) * opts.folderPathChunkSize
                                 + opts.folderPathChunkSize)])]

\* _getPath after the normalization: the checksum, the folders and the prefix
Physical(self, key1, opts) ==
    LET key2 == PostChecksum(key1, opts)
        key3 == Join(urlChunks(key2, opts), <<SLASH>>) \o <<SLASH>> \o toString(key2)
    IN  IF opts.pathPrefix # <<>> THEN PathJoin(self.pathPrefix, key3) ELSE key3

\* S3Cache._getPath(pathName, options) on the instance whose options are self,
\* where it does not throw (key1, the normalized key, is computed once)
GetPath(self, pathName, opts) ==
    CHOOSE key \in {Physical(self, key1, opts) : key1 \in {Normalized(pathName, opts)}} :
        TRUE

-----------------------------------------------------------------------------
(* Values, results, errors.                                                *)

NoError == [code |-> "null", statusCode |-> 0]
NotFound == [code |-> "NotFound", statusCode |-> 404]
IOError == [code |-> "InternalError", statusCode |-> 500]

NoData == [f \in {} |-> TRUE]
EmptyStore == [k \in {} |-> NoData]

\* a slip: the payload decoded as latin1 instead of UTF-8
StringifyResponseLatin1(response, opts) ==
    IF "Body" \notin DOMAIN response THEN Object(response)
    ELSE IF opts.stringifyResponses THEN Text(response.Body)
    ELSE Bytes(response.Body)

\* a slip: the payload is decoded whatever the options say
StringifyResponseAlways(response, opts) ==
    IF "Body" \notin DOMAIN response THEN Object(response)
    ELSE Text(BufferToString(response.Body))

\* S3Cache._stringifyResponse(response, options)
StringifyResponse(response, opts) ==
    IF "Body" \notin DOMAIN response THEN Object(response)
    ELSE IF opts.stringifyResponses THEN Text(BufferToString(response.Body))
    ELSE Bytes(response.Body)

\* S3Cache._timestampToMoment(timestamp) for a Unix timestamp: milliseconds
TimestampToMoment(timestamp) == timestamp * MsPerSecond

\* moment.unix(): whole seconds of a moment
Unix(ms) == ms \div MsPerSecond

\* moment.isBefore(): strictly before the clock
IsBefore(ms, clock) == ms < clock

\* moment.add(amount, units)
UnitMs(units) ==
    CASE units = "milliseconds" -> 1
      [] units = "seconds" -> MsPerSecond
      [] units = "minutes" -> 60 * MsPerSecond
      [] units = "hours" -> 3600 * MsPerSecond

MomentAdd(ms, amount, units) == ms + amount * UnitMs(units)

-----------------------------------------------------------------------------
(* The inputs of the model.                                                *)

KeyLower == <<97>>          \* 'a'
KeyUpper == <<65>>          \* 'A'
Keys == {Text(KeyLower), Text(KeyUpper)}

OldBody == <<111>>          \* 'o', the payload of an object found in the bucket
Values == {Text(<<233>>), Bytes(<<255>>)}

Instances ==
    { defaultOptions,
      [defaultOptions EXCEPT !.ttl = 1, !.normalizeLowercase = TRUE],
      [defaultOptions EXCEPT !.proactiveExpiry = TRUE, !.stringifyResponses = FALSE,
                             !.checksumAlgorithm = "none", !.pathPrefix = <<112>>] }

Addressing == [checksumAlgorithm |-> "none", normalizeLowercase |-> TRUE]

\* the options given to a get, to a set, and to a del, head or ttl
GetOptions ==
    { NoOptions, [proactiveExpiry |-> TRUE, stringifyResponses |-> FALSE], Addressing }
SetOptions ==
    { NoOptions, Addressing, [ttl |-> 2], [s3Options |-> [Expires |-> 0]] }
KeyOptions ==
    { NoOptions, Addressing }

\* objects an earlier use of the cache may have left in the bucket
Buckets(self) ==
    LET k == GetPath(self, Text(KeyLower), self)
    IN  { EmptyStore,
          [x \in {k} |-> [Body |-> OldBody]],
          [x \in {k} |-> [Body |-> OldBody, Expires |-> 0]],
          [x \in {k} |-> [Body |-> OldBody, Expires |-> 1]] }

-----------------------------------------------------------------------------
(* The calls.                                                              *)

Slots == 1..MaxCalls

Idle ==
    [ op |-> "none", key |-> Null, value |-> Null, opts |-> NoOptions,
      currentOptions |-> NoOptions,
      pc |-> "idle", api |-> "none", req |-> NoData,
      resp |-> [err |-> NoError, data |-> NoData],
      err |-> NoError, result |-> Null,
      \* keys: ContinuationToken and finalResults; reset: its batch deletes
      token |-> False, pages |-> <<>>, batches |-> <<>>,
      \* history, for the properties only
      snap |-> EmptyStore, quiet |-> TRUE,
      seq |-> FALSE, t0 |-> 0, faulted |-> FALSE,
      read |-> [err |-> NoError, data |-> NoData], stale |-> FALSE,
      before |-> NoData, had |-> FALSE,
      cbs |-> 0 ]                  \* how often the caller's callback was invoked

\* a call may start when the calls before it have started
CanCall(c) ==
    /\ calls[c].pc = "idle"
    /\ \A d \in Slots : d < c => calls[d].pc # "idle"

\* the call is over: it threw, or it has called back
Settled(c) ==
    /\ calls[c].pc \in {"done", "thrown"}
    /\ \A i \in DOMAIN calls[c].batches :
          calls[c].batches[i].pc \in {"waiting", "finished"}

\* the argument parsing of a call and its first request
Start(c, op, key, value, opts, api, req) ==
    calls' = [calls EXCEPT ![c] =
        [ Idle EXCEPT
            !.op = op, !.key = key, !.value = value, !.opts = opts,
            !.currentOptions = Assign(options, opts),
            !.pc = "request", !.api = api, !.req = req,
            !.seq = \A d \in Slots : d < c => Settled(d),
            !.t0 = IF op = "set" THEN now ELSE 0,
            !.snap = IF op \in {"keys", "reset"} THEN store ELSE EmptyStore ]]

\* the call throws while it builds its request: nothing is sent, no callback
Throw(c, op, key, value, opts) ==
    calls' = [calls EXCEPT ![c] =
        [ Idle EXCEPT
            !.op = op, !.key = key, !.value = value, !.opts = opts,
            !.currentOptions = Assign(options, opts),
            !.pc = "thrown",
            !.seq = \A d \in Slots : d < c => Settled(d) ]]

\* a slip: the per-call s3Options are dropped
WithS3OptionsDropped(requestOptions, opts) == requestOptions

\* a slip: the derived fields override the per-call s3Options
WithS3OptionsFirst(requestOptions, opts) ==
    IF "s3Options" \in DOMAIN opts THEN Assign(opts.s3Options, requestOptions)
    ELSE requestOptions

\* Object.assign(requestOptions, options.s3Options) when options has s3Options
WithS3Options(requestOptions, opts) ==
    IF "s3Options" \in DOMAIN opts THEN Assign(requestOptions, opts.s3Options)
    ELSE requestOptions

\* the callback of the call is invoked with (err, result)
Finish(c, err, result) ==
    calls' = [calls EXCEPT ![c].pc = "done", ![c].err = err, ![c].result = result,
                           ![c].cbs = calls[c].cbs + 1,
                           ![c].stale = IF calls[c].api = "getObject"
                                        THEN /\ calls[c].resp.err = NoError
                                             /\ "Expires" \in DOMAIN calls[c].resp.data
                                             /\ calls[c].resp.data.Expires * MsPerSecond < now
                                        ELSE calls[c].stale]

Init ==
    /\ \E given \in Instances : Constructed(Assign(keyParams, given))
    /\ store \in Buckets(options)
    /\ now = 0
    /\ calls = [c \in Slots |-> Idle]

\* the request of S3Cache.get(key, options, cb)
getRequest(key, opts) ==
    LET currentOptions == Assign(options, opts)
        requestOptions == [Key |-> GetPath(options, key, currentOptions)]
    IN  WithS3Options(requestOptions, opts)

\* a slip: the per-call options are merged into this.options
getMergingOptions(c, key, opts) ==
    /\ CanCall(c)
    /\ IF GetPathThrows(key, Assign(options, opts))
       THEN Throw(c, "get", key, Null, opts)
       ELSE Start(c, "get", key, Null, opts, "getObject", getRequest(key, opts))
    /\ options' = Assign(options, opts)
    /\ UNCHANGED <<s3, store, now>>

\* S3Cache.get(key, options, cb) up to s3.getObject
get(c, key, opts) ==
    /\ CanCall(c)
    /\ IF GetPathThrows(key, Assign(options, opts))
       THEN Throw(c, "get", key, Null, opts)
       ELSE Start(c, "get", key, Null, opts, "getObject", getRequest(key, opts))
    /\ UNCHANGED <<options, s3, store, now>>

\* a slip: the ttl is read from this.options, not from the merged options
setRequestInstanceTtl(key, value, opts, clock) ==
    LET currentOptions == Assign(options, opts)
        base == [ Key |-> GetPath(options, key, currentOptions),
                  Body |-> BytesOf(value) ]
        requestOptions ==
            IF options.ttl # 0
            THEN Assign(base, [Expires |->
                     Unix(MomentAdd(clock, options.ttl, options.ttlUnits))])
            ELSE base
    IN  WithS3Options(requestOptions, opts)

\* the request of S3Cache.set(key, value, options, cb) made at the time clock
setRequest(key, value, opts, clock) ==
    LET currentOptions == Assign(options, opts)
        base == [ Key |-> GetPath(options, key, currentOptions),
                  Body |-> BytesOf(value) ]
        requestOptions ==
            IF currentOptions.ttl # 0
            THEN Assign(base, [Expires |->
                     Unix(MomentAdd(clock, currentOptions.ttl, currentOptions.ttlUnits))])
            ELSE base
    IN  WithS3Options(requestOptions, opts)

\* S3Cache.set(key, value, options, cb) up to s3.putObject
set(c, key, value, opts) ==
    /\ CanCall(c)
    /\ IF GetPathThrows(key, Assign(options, opts)) \/ BufferFromThrows(value)
       THEN Throw(c, "set", key, value, opts)
       ELSE Start(c, "set", key, value, opts, "putObject",
                  setRequest(key, value, opts, now))
    /\ UNCHANGED <<options, s3, store, now>>

\* a slip: the logical key is sent as it is
delRequestRaw(key, opts) == WithS3Options([Key |-> toString(key)], opts)

\* the request of S3Cache.del(key, options, cb)
delRequest(key, opts) == WithS3Options([Key |-> GetPath(options, key, options)], opts)

\* S3Cache.del(key, options, cb) up to s3.deleteObject
del(c, key, opts) ==
    /\ CanCall(c)
    /\ IF GetPathThrows(key, options)
       THEN Throw(c, "del", key, Null, opts)
       ELSE Start(c, "del", key, Null, opts, "deleteObject", delRequest(key, opts))
    /\ UNCHANGED <<options, s3, store, now>>

\* the request of S3Cache.head(key, options, cb)
headRequest(key, opts) == WithS3Options([Key |-> GetPath(options, key, options)], opts)

\* S3Cache.head(key, options, cb) up to s3.headObject
head(c, key, opts) ==
    /\ CanCall(c)
    /\ IF GetPathThrows(key, options)
       THEN Throw(c, "head", key, Null, opts)
       ELSE Start(c, "head", key, Null, opts, "headObject", headRequest(key, opts))
    /\ UNCHANGED <<options, s3, store, now>>

\* S3Cache.ttl(key, options, cb): a head whose callback is ttl's
ttl(c, key, opts) ==
    /\ CanCall(c)
    /\ IF GetPathThrows(key, options)
       THEN Throw(c, "ttl", key, Null, opts)
       ELSE Start(c, "ttl", key, Null, opts, "headObject", headRequest(key, opts))
    /\ UNCHANGED <<options, s3, store, now>>

-----------------------------------------------------------------------------
(* The S3 service: each request is handled in one step on the bucket.      *)

\* history: the physical key of the call's key under its merged options
Address(c) == GetPath(options, calls[c].key, calls[c].currentOptions)

Respond(c, err, data) ==
    calls' = [calls EXCEPT ![c].pc = "response",
                           ![c].resp = [err |-> err, data |-> data],
                           ![c].had = Address(c) \in DOMAIN store,
                           ![c].before = IF Address(c) \in DOMAIN store
                                         THEN store[Address(c)] ELSE NoData,
                           ![c].read = IF calls[c].api = "getObject"
                                       THEN [err |-> err, data |-> data]
                                       ELSE calls[c].read]

Requested(c, api) == calls[c].pc = "request" /\ calls[c].api = api

\* the stored object of a put request: its parameters but the key
StoredObject(req) == [f \in (DOMAIN req) \ {"Key"} |-> req[f]]

\* the metadata of a stored object: all but the payload
Metadata(object) == [f \in (DOMAIN object) \ {"Body"} |-> object[f]]

getObject(c) ==
    /\ Requested(c, "getObject")
    /\ IF calls[c].req.Key \in DOMAIN store
       THEN Respond(c, NoError, store[calls[c].req.Key])
       ELSE Respond(c, NotFound, NoData)
    /\ UNCHANGED <<options, s3, store, now>>

putObject(c) ==
    /\ Requested(c, "putObject")
    /\ store' = [k \in (DOMAIN store) \cup {calls[c].req.Key} |->
                    IF k = calls[c].req.Key THEN StoredObject(calls[c].req)
                    ELSE store[k]]
    /\ Respond(c, NoError, NoData)
    /\ UNCHANGED <<options, s3, now>>

deleteObject(c) ==
    /\ Requested(c, "deleteObject")
    /\ store' = [k \in (DOMAIN store) \ {calls[c].req.Key} |-> store[k]]
    /\ Respond(c, NoError, NoData)
    /\ UNCHANGED <<options, s3, now>>

headObject(c) ==
    /\ Requested(c, "headObject")
    /\ IF calls[c].req.Key \in DOMAIN store
       THEN Respond(c, NoError, Metadata(store[calls[c].req.Key]))
       ELSE Respond(c, NotFound, NoData)
    /\ UNCHANGED <<options, s3, store, now>>

\* a request fails (network, permission, throttling): the bucket is untouched
requestFails(c) ==
    /\ calls[c].pc = "request"
    /\ calls' = [calls EXCEPT ![c].pc = "response",
                              ![c].resp = [err |-> IOError, data |-> NoData],
                              ![c].read = IF calls[c].api = "getObject"
                                          THEN [err |-> IOError, data |-> NoData]
                                          ELSE calls[c].read,
                              ![c].faulted = TRUE]
    /\ UNCHANGED <<options, s3, store, now>>

-----------------------------------------------------------------------------
(* The callbacks of S3Cache.                                               *)

Responded(c, op, api) ==
    calls[c].pc = "response" /\ calls[c].op = op /\ calls[c].api = api

\* a slip: the not-found error is passed on
getFinalRaw(c, err, result) == Finish(c, err, result)

\* the final callback of get's waterfall
getFinal(c, err, result) ==
    IF err # NoError /\ err.statusCode = 404
    THEN Finish(c, NoError, Null)
    ELSE Finish(c, err, result)

\* a slip: isSameOrBefore for isBefore
isExpiredOrNow(result, clock) ==
    "Expires" \in DOMAIN result /\ TimestampToMoment(result.Expires) <= clock

\* the expiry test of get
isExpired(result, clock) ==
    "Expires" \in DOMAIN result /\ IsBefore(TimestampToMoment(result.Expires), clock)

\* slips: the expired object is deleted whatever the options, or never
shouldDeleteAlways(currentOptions) == TRUE
shouldDeleteNever(currentOptions) == FALSE

\* get deletes the expired object it read
shouldDelete(currentOptions) == currentOptions.proactiveExpiry

\* get's second waterfall task, on the response of s3.getObject
getResult(c) ==
    /\ Responded(c, "get", "getObject")
    /\ LET err == calls[c].resp.err
           result == calls[c].resp.data
       IN  IF err # NoError THEN getFinal(c, err, Null)
           ELSE IF isExpired(result, now)
           THEN IF shouldDelete(calls[c].currentOptions)
                THEN calls' = [calls EXCEPT ![c].pc = "request",
                                            ![c].api = "deleteObject",
                                            ![c].req = delRequest(calls[c].key, NoOptions),
                                            ![c].stale =
                                                /\ "Expires" \in DOMAIN result
                                                /\ result.Expires * MsPerSecond < now]
                ELSE getFinal(c, NoError, Null)
           ELSE getFinal(c, NoError, StringifyResponse(result, calls[c].currentOptions))
    /\ UNCHANGED <<options, s3, store, now>>

\* a slip: the error of the delete request is dropped
getDeletedQuietly(c) ==
    /\ Responded(c, "get", "deleteObject")
    /\ Finish(c, NoError, Null)
    /\ UNCHANGED <<options, s3, store, now>>

\* the callback get gives to this.del, on the response of s3.deleteObject
getDeleted(c) ==
    /\ Responded(c, "get", "deleteObject")
    /\ getFinal(c, calls[c].resp.err, Null)
    /\ UNCHANGED <<options, s3, store, now>>

\* the caller's callback of set, given to s3.putObject
setDone(c) ==
    /\ Responded(c, "set", "putObject")
    /\ Finish(c, calls[c].resp.err,
              IF calls[c].resp.err = NoError THEN Object(calls[c].resp.data) ELSE Null)
    /\ UNCHANGED <<options, s3, store, now>>

\* the caller's callback of del, given to s3.deleteObject
delDone(c) ==
    /\ Responded(c, "del", "deleteObject")
    /\ Finish(c, calls[c].resp.err,
              IF calls[c].resp.err = NoError THEN Object(calls[c].resp.data) ELSE Null)
    /\ UNCHANGED <<options, s3, store, now>>

\* a slip: head reports an expired object as not found, as get does
headDoneEnforcing(c) ==
    /\ Responded(c, "head", "headObject")
    /\ IF calls[c].resp.err = NoError /\ isExpired(calls[c].resp.data, now)
       THEN Finish(c, NotFound, Null)
       ELSE Finish(c, calls[c].resp.err,
                   IF calls[c].resp.err = NoError THEN Object(calls[c].resp.data)
                   ELSE Null)
    /\ UNCHANGED <<options, s3, store, now>>

\* the caller's callback of head, given to s3.headObject
headDone(c) ==
    /\ Responded(c, "head", "headObject")
    /\ Finish(c, calls[c].resp.err,
              IF calls[c].resp.err = NoError THEN Object(calls[c].resp.data) ELSE Null)
    /\ UNCHANGED <<options, s3, store, now>>

\* a slip: ttl treats not-found as get does
ttlDoneAbsent(c) ==
    /\ Responded(c, "ttl", "headObject")
    /\ LET err == calls[c].resp.err
           result == calls[c].resp.data
       IN  IF err = NoError /\ "Expires" \in DOMAIN result
           THEN Finish(c, NoError, Number(Unix(TimestampToMoment(result.Expires))))
           ELSE Finish(c, IF err.statusCode = 404 THEN NoError ELSE err, Number(-1))
    /\ UNCHANGED <<options, s3, store, now>>

\* a slip: the moment is delivered in milliseconds
ttlDoneMillis(c) ==
    /\ Responded(c, "ttl", "headObject")
    /\ LET err == calls[c].resp.err
           result == calls[c].resp.data
       IN  IF err = NoError /\ "Expires" \in DOMAIN result
           THEN Finish(c, NoError, Number(TimestampToMoment(result.Expires)))
           ELSE Finish(c, err, Number(-1))
    /\ UNCHANGED <<options, s3, store, now>>

\* the callback ttl gives to head
ttlDone(c) ==
    /\ Responded(c, "ttl", "headObject")
    /\ LET err == calls[c].resp.err
           result == calls[c].resp.data
       IN  IF err = NoError /\ "Expires" \in DOMAIN result
           THEN Finish(c, NoError, Number(Unix(TimestampToMoment(result.Expires))))
           ELSE Finish(c, err, Number(-1))
    /\ UNCHANGED <<options, s3, store, now>>

-----------------------------------------------------------------------------
(* keys and reset: the listing of the bucket page by page, and the batch   *)
(* deletes of reset.                                                       *)

\* if( ContinuationToken ): the truth value of a JavaScript value
Truthy(value) ==
    CASE value.kind \in {"false", "undefined", "null"} -> FALSE
      [] value.kind = "string" -> value.data # <<>>
      [] value.kind = "number" -> value.num # 0
      [] OTHER -> TRUE

\* a slip: the token is not passed on, every round asks for the first page
keysRequestFirstPage(opts, ContinuationToken) == WithS3Options(NoData, opts)

\* the request of one round of the loop of keys
keysRequest(opts, ContinuationToken) ==
    LET requestOptions == WithS3Options(NoData, opts)
    IN  IF Truthy(ContinuationToken)
        THEN Assign(requestOptions, [ContinuationToken |-> ContinuationToken.data])
        ELSE requestOptions

\* S3Cache.keys(options, cb) up to the first s3.listObjectsV2
keys(c, opts) ==
    /\ CanCall(c)
    /\ Start(c, "keys", Null, Null, opts, "listObjectsV2", keysRequest(opts, False))
    /\ UNCHANGED <<options, s3, store, now>>

\* S3Cache.reset(cb) up to the first s3.listObjectsV2 of its keys
reset(c) ==
    /\ CanCall(c)
    /\ Start(c, "reset", Null, Null, [dontConcatPages |-> TRUE], "listObjectsV2",
             keysRequest([dontConcatPages |-> TRUE], False))
    /\ UNCHANGED <<options, s3, store, now>>

\* a slip: the loop of keys stops after the first page
keysContinueNever(ContinuationToken) == FALSE

\* the test of the loop of keys
keysContinue(ContinuationToken) == ContinuationToken # False

\* what keys delivers for the pages it received
keysResult(finalResults, currentOptions) ==
    IF "dontConcatPages" \in DOMAIN currentOptions /\ currentOptions.dontConcatPages
    THEN Array(finalResults)
    ELSE IF Len(finalResults) = 1 THEN Array(finalResults[1])
    ELSE Array(Flatten(finalResults))

\* a slip: only the first object of a page is deleted
deleteObjectsRequestHead(dataset) ==
    [Delete |-> [Objects |-> <<[Key |-> dataset[1].Key]>>]]

\* the request of a batch delete of reset
deleteObjectsRequest(dataset) ==
    [Delete |-> [Objects |-> [j \in 1..Len(dataset) |-> [Key |-> dataset[j].Key]]]]

\* a slip: async.map for async.mapLimit, no limit on the running batches
RunningUnlimited(batches) == 0

\* async.mapLimit: the batches whose request is sent and whose callback has not run
Running(batches) ==
    Cardinality({i \in DOMAIN batches : batches[i].pc \in {"request", "response"}})

Waiting(batches) == {i \in DOMAIN batches : batches[i].pc = "waiting"}

\* async.mapLimit: the next pages are taken while fewer than MapLimit are running;
\* an empty page calls back at once, without a request
RECURSIVE Replenish(_, _)
Replenish(batches, pages) ==
    IF Running(batches) >= MapLimit \/ Waiting(batches) = {} THEN batches
    ELSE LET i == CHOOSE j \in Waiting(batches) : \A k \in Waiting(batches) : j <= k
         IN  Replenish([batches EXCEPT ![i] =
                 IF pages[i] = <<>>
                 THEN [pc |-> "finished", req |-> NoData, err |-> NoError,
                       data |-> Undefined]
                 ELSE [pc |-> "request", req |-> deleteObjectsRequest(pages[i]),
                       err |-> NoError, data |-> Undefined]], pages)

\* async.map: the results of the batches, in the order of the pages
mapResults(batches) == Array([i \in DOMAIN batches |-> batches[i].data])

\* the final callback of reset's waterfall after the last batch: cb(null, results)
resetFinal(c, batches, pages) ==
    IF \A i \in DOMAIN batches : batches[i].pc = "finished"
    THEN calls' = [calls EXCEPT ![c].pc = "done", ![c].err = NoError,
                                ![c].result = mapResults(batches),
                                ![c].cbs = calls[c].cbs + 1,
                                ![c].batches = batches, ![c].pages = pages,
                                ![c].token = False]
    ELSE calls' = [calls EXCEPT ![c].pc = "deleting",
                                ![c].batches = batches, ![c].pages = pages,
                                ![c].token = False]

\* a slip: the callback of async.mapLimit is not guarded, each failing batch
\* calls it
calledBackUnguarded(c) == FALSE

\* async.mapLimit calls its callback once: after the first error the callbacks
\* of the batches still running find it called
calledBack(c) == calls[c].pc = "done"

\* a slip: a failed list request is sent again
keysFailedRetry(c, err) ==
    calls' = [calls EXCEPT ![c].pc = "request"]

\* keys after a failed list request: cb(err)
keysFailed(c, err) == Finish(c, err, Undefined)

\* the callback of s3.listObjectsV2 and the end of the loop of keys
keysPage(c) ==
    /\ calls[c].pc = "response" /\ calls[c].api = "listObjectsV2"
    /\ LET err == calls[c].resp.err
           results == calls[c].resp.data
           ContinuationToken ==
               IF results.IsTruncated
               THEN IF "NextContinuationToken" \in DOMAIN results
                    THEN Text(results.NextContinuationToken)
                    ELSE Undefined
               ELSE False
           finalResults == Append(calls[c].pages, results.Contents)
       IN  IF err # NoError THEN keysFailed(c, err)
           ELSE IF keysContinue(ContinuationToken)
           THEN calls' = [calls EXCEPT
                    ![c].pc = "request",
                    ![c].req = keysRequest(calls[c].opts, ContinuationToken),
                    ![c].token = ContinuationToken,
                    ![c].pages = finalResults]
           ELSE IF calls[c].op = "keys"
           THEN calls' = [calls EXCEPT
                    ![c].pc = "done", ![c].err = NoError,
                    ![c].result = keysResult(finalResults, calls[c].currentOptions),
                    ![c].cbs = calls[c].cbs + 1,
                    ![c].token = ContinuationToken,
                    ![c].pages = finalResults]
           ELSE resetFinal(c,
                    Replenish([i \in 1..Len(finalResults) |->
                                  [pc |-> "waiting", req |-> NoData, err |-> NoError,
                                   data |-> Undefined]], finalResults),
                    finalResults)
    /\ UNCHANGED <<options, s3, store, now>>

\* the callback of one batch delete of reset (async.mapLimit's iterateeCallback):
\* the first error calls reset's callback at once and no further batch is
\* started; the callback is called once
resetBatchDone(c) ==
    /\ \E i \in DOMAIN calls[c].batches :
          /\ calls[c].batches[i].pc = "response"
          /\ LET err == calls[c].batches[i].err
                 batches == [calls[c].batches EXCEPT ![i].pc = "finished"]
             IN  IF calledBack(c)
                 THEN calls' = [calls EXCEPT ![c].batches = batches]
                 ELSE IF err # NoError
                 THEN calls' = [calls EXCEPT ![c].pc = "done", ![c].err = err,
                                             ![c].result = mapResults(batches),
                                             ![c].cbs = calls[c].cbs + 1,
                                             ![c].batches = batches]
                 ELSE resetFinal(c, Replenish(batches, calls[c].pages), calls[c].pages)
    /\ UNCHANGED <<options, s3, store, now>>

-----------------------------------------------------------------------------
(* The S3 service: listing and batch delete.                               *)

\* the order in which the service lists the keys: by code unit
RECURSIVE KeyLess(_, _)
KeyLess(a, b) ==
    IF b = <<>> THEN FALSE
    ELSE IF a = <<>> THEN TRUE
    ELSE IF a[1] # b[1] THEN a[1] < b[1]
    ELSE KeyLess(Tail(a), Tail(b))

RECURSIVE Sorted(_)
Sorted(S) ==
    IF S = {} THEN <<>>
    ELSE LET m == CHOOSE k \in S : \A j \in S \ {k} : KeyLess(k, j)
         IN  <<m>> \o Sorted(S \ {m})

\* the entries of a page
Entries(page) == [i \in 1..Len(page) |-> [Key |-> page[i]]]

\* one page of the listing: the keys after the token, PageSize at most
listObjectsV2(c) ==
    /\ Requested(c, "listObjectsV2")
    /\ LET req == calls[c].req
           after == IF "ContinuationToken" \in DOMAIN req
                    THEN {k \in DOMAIN store : KeyLess(req.ContinuationToken, k)}
                    ELSE DOMAIN store
           listed == Sorted(after)
           page == SubSeq(listed, 1, Min(PageSize, Len(listed)))
           data == IF Len(listed) > PageSize
                   THEN [Contents |-> Entries(page), IsTruncated |-> TRUE,
                         NextContinuationToken |-> page[Len(page)]]
                   ELSE [Contents |-> Entries(page), IsTruncated |-> FALSE]
       IN  calls' = [calls EXCEPT ![c].pc = "response",
                                  ![c].resp = [err |-> NoError, data |-> data],
                                  ![c].quiet = calls[c].quiet /\ store = calls[c].snap]
    /\ UNCHANGED <<options, s3, store, now>>

\* a service that answers with a truncated page and no usable token: the
\* NextContinuationToken is missing or is the empty string
listObjectsV2NoToken(c) ==
    /\ Requested(c, "listObjectsV2")
    /\ Len(calls[c].pages) < MaxRounds
    /\ LET req == calls[c].req
           after == IF "ContinuationToken" \in DOMAIN req
                    THEN {k \in DOMAIN store : KeyLess(req.ContinuationToken, k)}
                    ELSE DOMAIN store
           listed == Sorted(after)
           page == SubSeq(listed, 1, Min(PageSize, Len(listed)))
       IN  \E data \in { [Contents |-> Entries(page), IsTruncated |-> TRUE],
                          [Contents |-> Entries(page), IsTruncated |-> TRUE,
                           NextContinuationToken |-> <<>>] } :
               calls' = [calls EXCEPT ![c].pc = "response",
                                      ![c].resp = [err |-> NoError, data |-> data],
                                      ![c].quiet = calls[c].quiet /\ store = calls[c].snap]
    /\ UNCHANGED <<options, s3, store, now>>

\* a batch delete removes the objects it names
deleteObjects(c) ==
    /\ \E i \in DOMAIN calls[c].batches :
          /\ calls[c].batches[i].pc = "request"
          /\ LET objects == calls[c].batches[i].req.Delete.Objects
                 gone == {objects[j].Key : j \in 1..Len(objects)}
             IN  /\ store' = [k \in (DOMAIN store) \ gone |-> store[k]]
                 /\ calls' = [calls EXCEPT
                        ![c].batches[i].pc = "response",
                        ![c].batches[i].data = Object([Deleted |-> objects])]
    /\ UNCHANGED <<options, s3, now>>

\* a batch delete answers with partial errors: the response is no error, the
\* last object named is not deleted and is reported in Errors, the others are
\* deleted
deleteObjectsPartly(c) ==
    /\ \E i \in DOMAIN calls[c].batches :
          /\ calls[c].batches[i].pc = "request"
          /\ LET objects == calls[c].batches[i].req.Delete.Objects
                 deleted == SubSeq(objects, 1, Len(objects) - 1)
                 gone == {deleted[j].Key : j \in 1..Len(deleted)}
             IN  /\ store' = [k \in (DOMAIN store) \ gone |-> store[k]]
                 /\ calls' = [calls EXCEPT
                        ![c].batches[i].pc = "response",
                        ![c].batches[i].data =
                            Object([Deleted |-> deleted,
                                    Errors |-> <<objects[Len(objects)]>>])]
    /\ UNCHANGED <<options, s3, now>>

\* a batch delete fails as a whole: the bucket is untouched
deleteObjectsFails(c) ==
    /\ \E i \in DOMAIN calls[c].batches :
          /\ calls[c].batches[i].pc = "request"
          /\ calls' = [calls EXCEPT ![c].batches[i].pc = "response",
                                    ![c].batches[i].err = IOError,
                                    ![c].faulted = TRUE]
    /\ UNCHANGED <<options, s3, store, now>>

-----------------------------------------------------------------------------
(* The specifications.                                                     *)

\* the clock advances
Tick ==
    /\ now < MaxTicks * TickMs
    /\ now' = now + TickMs
    /\ UNCHANGED <<options, s3, store, calls>>

Next ==
    \/ \E c \in Slots, key \in Keys, opts \in GetOptions : get(c, key, opts)
    \/ \E c \in Slots, key \in Keys, value \in Values, opts \in SetOptions :
          set(c, key, value, opts)
    \/ \E c \in Slots, key \in Keys, opts \in KeyOptions : del(c, key, opts)
    \/ \E c \in Slots, key \in Keys, opts \in KeyOptions : head(c, key, opts)
    \/ \E c \in Slots, key \in Keys, opts \in KeyOptions : ttl(c, key, opts)
    \/ \E c \in Slots : getObject(c)
    \/ \E c \in Slots : putObject(c)
    \/ \E c \in Slots : deleteObject(c)
    \/ \E c \in Slots : headObject(c)
    \/ \E c \in Slots : requestFails(c)
    \/ \E c \in Slots : getResult(c)
    \/ \E c \in Slots : getDeleted(c)
    \/ \E c \in Slots : setDone(c)
    \/ \E c \in Slots : delDone(c)
    \/ \E c \in Slots : headDone(c)
    \/ \E c \in Slots : ttlDone(c)
    \/ Tick

Spec == Init /\ [][Next]_vars

TypeOK ==
    /\ \E given \in Instances : Constructed(Assign(keyParams, given))
    /\ now \in 0..(MaxTicks * TickMs)
    /\ \A c \in Slots :
          calls[c].pc \in {"idle", "request", "response", "done", "thrown"}

(* The whole surface of S3Cache, keys and reset included, on a bucket of  *)
(* several pages, with keys and values that are no strings, at a time     *)
(* when the epoch is past.                                                *)

FullKeys == {Text(KeyLower), Number(1), Bytes(KeyLower)}
FullValues == {Text(<<233>>), Number(2)}
FullGetOptions == {NoOptions, [proactiveExpiry |-> TRUE]}
FullSetOptions ==
    { NoOptions,
      [s3Options |-> [Expires |-> 0]],
      [s3Options |-> [Key |-> <<107>>, Body |-> <<98>>]] }

\* the keys of a bucket of three pages, the last one partly filled
PagedKeys == {<<96 + i>> : i \in 1..(2 * PageSize + 1)}

FullBuckets == {EmptyStore, [k \in PagedKeys |-> [Body |-> OldBody]]}

FullInit ==
    /\ Constructed(Assign(keyParams, [defaultOptions EXCEPT !.ttl = 1]))
    /\ store \in FullBuckets
    /\ now = TickMs
    /\ calls = [c \in Slots |-> Idle]

FullNext ==
    \/ \E c \in Slots, key \in FullKeys, opts \in FullGetOptions : get(c, key, opts)
    \/ \E c \in Slots, key \in FullKeys, value \in FullValues, opts \in FullSetOptions :
          set(c, key, value, opts)
    \/ \E c \in Slots, key \in FullKeys : del(c, key, NoOptions)
    \/ \E c \in Slots, key \in FullKeys : head(c, key, NoOptions)
    \/ \E c \in Slots, key \in FullKeys : ttl(c, key, NoOptions)
    \/ \E c \in Slots : keys(c, NoOptions)
    \/ \E c \in Slots : reset(c)
    \/ \E c \in Slots : getObject(c)
    \/ \E c \in Slots : putObject(c)
    \/ \E c \in Slots : deleteObject(c)
    \/ \E c \in Slots : headObject(c)
    \/ \E c \in Slots : listObjectsV2(c)
    \/ \E c \in Slots : deleteObjects(c)
    \/ \E c \in Slots : deleteObjectsPartly(c)
    \/ \E c \in Slots : requestFails(c)
    \/ \E c \in Slots : deleteObjectsFails(c)
    \/ \E c \in Slots : getResult(c)
    \/ \E c \in Slots : getDeleted(c)
    \/ \E c \in Slots : setDone(c)
    \/ \E c \in Slots : delDone(c)
    \/ \E c \in Slots : headDone(c)
    \/ \E c \in Slots : ttlDone(c)
    \/ \E c \in Slots : keysPage(c)
    \/ \E c \in Slots : resetBatchDone(c)

FullSpec == FullInit /\ [][FullNext]_vars

-----------------------------------------------------------------------------
(* The calls that give a pathPrefix of their own: instances without and    *)
(* with a prefix, get and set with no options, with the prefix 'x' and     *)
(* with the empty prefix.                                                  *)

PathInstances == {defaultOptions, [defaultOptions EXCEPT !.pathPrefix = <<112>>]}

PathOptions == {NoOptions, [pathPrefix |-> <<120>>], [pathPrefix |-> <<>>]}

PathInit ==
    /\ \E given \in PathInstances : Constructed(Assign(keyParams, given))
    /\ store = EmptyStore
    /\ now = 0
    /\ calls = [c \in Slots |-> Idle]

PathNext ==
    \/ \E c \in Slots, key \in Keys, opts \in PathOptions : get(c, key, opts)
    \/ \E c \in Slots, key \in Keys, value \in Values, opts \in PathOptions :
          set(c, key, value, opts)
    \/ \E c \in Slots : getObject(c)
    \/ \E c \in Slots : putObject(c)
    \/ \E c \in Slots : requestFails(c)
    \/ \E c \in Slots : getResult(c)
    \/ \E c \in Slots : setDone(c)

PathSpec == PathInit /\ [][PathNext]_vars

-----------------------------------------------------------------------------
(* The derivation of the physical key: instances without a checksum (with  *)
(* and without a prefix, plain and base64), with the md5 digest, and with  *)
(* URL keys; get and set of keys with slashes, of case variants and of     *)
(* URLs, with per-call folder options.                                     *)

KeyInstances ==
    { [defaultOptions EXCEPT !.checksumAlgorithm = "none"],
      [defaultOptions EXCEPT !.checksumAlgorithm = "none", !.pathPrefix = <<112>>],
      [defaultOptions EXCEPT !.checksumAlgorithm = "none", !.checksumEncoding = "base64"],
      defaultOptions,
      [defaultOptions EXCEPT !.parseKeyAsUrl = TRUE] }

\* 'a/b', 'a//b', 'A/b', 'u?a=1&b=2', 'u?b=2&a=1'
PathKeys ==
    { Text(<<97, 47, 98>>), Text(<<97, 47, 47, 98>>), Text(<<65, 47, 98>>),
      Text(<<117, 63, 97, 61, 49, 38, 98, 61, 50>>),
      Text(<<117, 63, 98, 61, 50, 38, 97, 61, 49>>) }

FolderOptions ==
    { NoOptions, [folderPathDepth |-> 0], [folderPathChunkSize |-> 0],
      [folderPathDepth |-> 1, folderPathChunkSize |-> 3] }

KeyInit ==
    /\ \E given \in KeyInstances : Constructed(Assign(keyParams, given))
    /\ store = EmptyStore
    /\ now = 0
    /\ calls = [c \in Slots |-> Idle]

KeyNext ==
    \/ \E c \in Slots, key \in PathKeys, opts \in FolderOptions : get(c, key, opts)
    \/ \E c \in Slots, key \in PathKeys, opts \in FolderOptions :
          set(c, key, Text(<<118>>), opts)
    \/ \E c \in Slots : getObject(c)
    \/ \E c \in Slots : putObject(c)
    \/ \E c \in Slots : getResult(c)
    \/ \E c \in Slots : setDone(c)

KeySpec == KeyInit /\ [][KeyNext]_vars

-----------------------------------------------------------------------------
(* Construction: every combination of a missing, an empty and a given      *)
(* accessKey, secretKey and bucket, with s3Options absent, not an object,  *)
(* null, or an object with or without params; then further instances made  *)
(* from the same options with another bucket.                              *)

GivenAccessKeys == {NoOptions, [accessKey |-> <<>>], [accessKey |-> <<97>>]}
GivenSecretKeys == {NoOptions, [secretKey |-> <<>>], [secretKey |-> <<98>>]}
GivenBuckets == {NoOptions, [bucket |-> <<>>], [bucket |-> <<99>>]}
GivenS3Options ==
    { NoOptions,
      [s3Options |-> Number(2)],
      [s3Options |-> Null],
      [s3Options |-> Object(NoOptions)],
      [s3Options |-> Object([region |-> <<114>>])],
      [s3Options |-> Object([params |-> [ContentType |-> <<116>>]])],
      [s3Options |-> Object([params |-> [Bucket |-> <<111>>]])] }

Givens ==
    { Assign(Assign(a, b), Assign(c, d)) :
        a \in GivenAccessKeys, b \in GivenSecretKeys,
        c \in GivenBuckets, d \in GivenS3Options }

CtorInit ==
    /\ options = NoOptions
    /\ s3 = NoClient
    /\ store = EmptyStore
    /\ now = 0
    /\ calls = [c \in Slots |-> Idle]

\* the buckets of further instances
NextBuckets == {<<99>>, <<100>>}

CtorNext ==
    \/ \E given \in Givens : construct(given)
    \/ \E bucket \in NextBuckets : constructNext(bucket)

CtorSpec == CtorInit /\ [][CtorNext]_vars

-----------------------------------------------------------------------------
(* Listing with a service that may answer a truncated page without a       *)
(* usable continuation token: keys on a bucket of three pages (the listing *)
(* of reset is a call of keys).                                            *)

ListInit ==
    /\ Constructed(Assign(keyParams, defaultOptions))
    /\ store = [k \in PagedKeys |-> [Body |-> OldBody]]
    /\ now = 0
    /\ calls = [c \in Slots |-> Idle]

ListNext ==
    \/ \E c \in Slots : keys(c, NoOptions)
    \/ \E c \in Slots : listObjectsV2(c)
    \/ \E c \in Slots : listObjectsV2NoToken(c)
    \/ \E c \in Slots : requestFails(c)
    \/ \E c \in Slots : keysPage(c)

ListSpec == ListInit /\ [][ListNext]_vars

-----------------------------------------------------------------------------
(* Vocabulary of the properties.                                           *)

Done(c) == calls[c].pc = "done"

\* no later call has started
Latest(c) == \A d \in Slots : d > c => calls[d].pc = "idle"

\* the call overlapped no other call
Alone(c) == calls[c].seq /\ \A d \in Slots : (d > c /\ calls[d].pc # "idle") => calls[d].seq

\* the call has completed and none of its requests failed
Ran(c) == Done(c) /\ ~calls[c].faulted

\* call c was made right after call c - 1 completed; both ran undisturbed
Follows(c) ==
    /\ c - 1 \in Slots
    /\ Alone(c - 1) /\ Ran(c - 1)
    /\ Alone(c) /\ Ran(c)
    /\ calls[c].key = calls[c - 1].key

AddressingFields ==
    {"pathPrefix", "folderPathDepth", "folderPathChunkSize", "checksumAlgorithm",
     "checksumEncoding", "normalizeLowercase", "s3Options"}

\* the options override nothing of the addressing
Plain(opts) == (DOMAIN opts) \cap AddressingFields = {}

\* the bytes set stores for a value
Payload(value) == BytesOf(value)

\* how get delivers a payload under its options
Delivered(bytes, currentOptions) ==
    IF currentOptions.stringifyResponses THEN Text(BufferToString(bytes)) ELSE Bytes(bytes)

-----------------------------------------------------------------------------
(* C1 as stated: for a string key k and a string value v, with no ttl in   *)
(* effect, set(k, v) followed by get(k) with the same options delivers no  *)
(* error and exactly v.                                                    *)

SetThenGet(c) ==
    /\ Follows(c)
    /\ calls[c - 1].op = "set" /\ calls[c].op = "get"
    /\ calls[c].opts = calls[c - 1].opts
    /\ calls[c - 1].value.kind = "string"
    /\ calls[c - 1].currentOptions.ttl = 0

\* C1 as stated: the get after the set delivers no error and exactly v
RoundTripExact ==
    \A c \in Slots : SetThenGet(c) =>
        calls[c].err = NoError /\ calls[c].result = calls[c - 1].value

(* C1 as amended: the get delivers no error and exactly v when             *)
(* stringifyResponses is in effect; when it is false the get delivers the  *)
(* byte buffer of v's UTF-8 encoding.                                      *)

RoundTrip ==
    \A c \in Slots : SetThenGet(c) =>
        /\ calls[c].err = NoError
        /\ calls[c].result =
              IF calls[c].currentOptions.stringifyResponses
              THEN calls[c - 1].value
              ELSE Bytes(BufferFrom(calls[c - 1].value.data))

RoundTripWitness ==
    \E c \in Slots :
        /\ SetThenGet(c)
        /\ calls[c].opts = Addressing
        /\ calls[c].result = calls[c - 1].value
        /\ calls[c].result.data # BufferFrom(calls[c].result.data)

-----------------------------------------------------------------------------
(* C2: a get never delivers the payload of an object whose expiry is       *)
(* strictly before the clock when get examines it: it delivers null, with  *)
(* no error when none of its requests failed.  An object with no expiry,   *)
(* or whose expiry is the clock's time or later, is delivered with its     *)
(* payload and no error.                                                   *)

NoStalePayload ==
    \A c \in Slots :
        (Done(c) /\ calls[c].op = "get" /\ calls[c].read.err = NoError) =>
            IF calls[c].stale
            THEN calls[c].result = Null /\ (~calls[c].faulted => calls[c].err = NoError)
            ELSE /\ calls[c].err = NoError
                 /\ calls[c].result =
                       Delivered(calls[c].read.data.Body, calls[c].currentOptions)

NoStalePayloadWitness ==
    \E c, d \in Slots :
        /\ Done(c) /\ calls[c].op = "get" /\ calls[c].read.err = NoError
        /\ "Expires" \in DOMAIN calls[c].read.data
        /\ ~calls[c].stale /\ calls[c].result.kind = "string"
        /\ Done(d) /\ calls[d].op = "get" /\ calls[d].read = calls[c].read
        /\ calls[d].stale /\ calls[d].result = Null /\ calls[d].err = NoError

-----------------------------------------------------------------------------
(* C3: a get whose key the service reports as not found invokes its        *)
(* callback with error null and value null.                                *)

-----------------------------------------------------------------------------
(* C4: a step of a get changes the bucket only when proactiveExpiry is in  *)
(* effect for the get and the object it read was expired.                  *)

GetFrame ==
    [][ \A c \in Slots :
          (calls'[c].op = "get" /\ calls'[c] # calls[c] /\ store' # store) =>
              (calls[c].currentOptions.proactiveExpiry /\ calls[c].stale) ]_vars

GetFrameWitness ==
    \E c \in Slots :
        /\ Done(c) /\ calls[c].op = "get" /\ calls[c].stale
        /\ ~calls[c].currentOptions.proactiveExpiry
        /\ Latest(c) /\ Alone(c)
        /\ Address(c) \in DOMAIN store
        /\ store[Address(c)] = calls[c].read.data

-----------------------------------------------------------------------------
(* C5: when a get with proactiveExpiry, addressing as the instance does,   *)
(* has read an expired object and invokes its callback with the absent     *)
(* result, the object is gone from the bucket, and a head, ttl or get of   *)
(* the key made after the callback gets not-found from the service.        *)

ProactiveGet(c) ==
    /\ Done(c) /\ calls[c].op = "get" /\ Alone(c)
    /\ calls[c].currentOptions.proactiveExpiry /\ calls[c].stale
    /\ Plain(calls[c].opts)
    /\ calls[c].err = NoError /\ calls[c].result = Null

\* C5: once such a get has called back, the object is gone and later reads get not-found
ProactiveRemoved ==
    \A c \in Slots : ProactiveGet(c) =>
        /\ Latest(c) => Address(c) \notin DOMAIN store
        /\ \A d \in Slots :
              ( /\ d = c + 1 /\ calls[d].key = calls[c].key /\ Plain(calls[d].opts)
                /\ calls[d].op \in {"head", "ttl", "get"}
                /\ calls[d].pc \in {"response", "done"} /\ ~calls[d].faulted )
              => IF calls[d].op = "get" THEN calls[d].read.err = NotFound
                 ELSE calls[d].resp.err = NotFound

ProactiveRemovedWitness ==
    \E c, d \in Slots :
        /\ ProactiveGet(c) /\ calls[c].had
        /\ d = c + 1 /\ calls[d].key = calls[c].key /\ calls[d].op = "head"
        /\ Done(d) /\ calls[d].err = NotFound

-----------------------------------------------------------------------------
(* C6 as stated: a get of an expired object with proactiveExpiry reports   *)
(* the absent result with no error even when its delete request fails.     *)

ExpiredProactive(c) ==
    /\ Done(c) /\ calls[c].op = "get"
    /\ calls[c].currentOptions.proactiveExpiry /\ calls[c].stale

-----------------------------------------------------------------------------
(* C7: after a set made at the time t0 with an effective ttl t > 0 in the  *)
(* units u (instance or per-call), the stored object's expiry is           *)
(* t0 + t * u in whole epoch seconds, and ttl(k) delivers that timestamp   *)
(* with no error.                                                          *)

ExpectedExpiry(c) ==
    (calls[c].t0 + calls[c].currentOptions.ttl * UnitMs(calls[c].currentOptions.ttlUnits))
        \div MsPerSecond

SetThenTtl(c) ==
    /\ Follows(c)
    /\ calls[c - 1].op = "set" /\ calls[c].op = "ttl"
    /\ Plain(calls[c - 1].opts) /\ calls[c].opts = NoOptions
    /\ calls[c - 1].currentOptions.ttl > 0

\* C7: the stored expiry is the set's time plus its ttl, and ttl delivers it
ExpiryStored ==
    \A c \in Slots : SetThenTtl(c) =>
        /\ calls[c].had
        /\ "Expires" \in DOMAIN calls[c].before
        /\ calls[c].before.Expires = ExpectedExpiry(c - 1)
        /\ calls[c].err = NoError
        /\ calls[c].result = Number(ExpectedExpiry(c - 1))

ExpiryStoredWitness ==
    \E c \in Slots :
        /\ SetThenTtl(c)
        /\ "ttl" \in DOMAIN calls[c - 1].opts
        /\ calls[c - 1].t0 % MsPerSecond # 0
        /\ calls[c].result = Number(ExpectedExpiry(c - 1))

-----------------------------------------------------------------------------
(* C8: a set on a key whose object is present, live or expired, replaces   *)
(* the object: its payload is the new value and its expiry is the one of   *)
(* this set (none when the set has no ttl in effect), and a get of the key *)
(* made afterwards receives the new payload.                               *)

ExpectedObject(c) ==
    LET body == [Body |-> Payload(calls[c].value)]
    IN  IF "s3Options" \in DOMAIN calls[c].opts
        THEN Assign(body, calls[c].opts.s3Options)
        ELSE IF calls[c].currentOptions.ttl # 0
        THEN Assign(body, [Expires |-> ExpectedExpiry(c)])
        ELSE body

Overwriting(c) ==
    /\ Done(c) /\ calls[c].op = "set" /\ Alone(c) /\ ~calls[c].faulted
    /\ calls[c].had

\* C8: the stored object and what a later get reads are those of this set
Overwrite ==
    \A c \in Slots : Overwriting(c) =>
        /\ Latest(c) =>
              /\ Address(c) \in DOMAIN store
              /\ store[Address(c)] = ExpectedObject(c)
        /\ \A d \in Slots :
              ( /\ d = c + 1 /\ Ran(d) /\ calls[d].op = "get"
                /\ calls[d].key = calls[c].key
                /\ Address(d) = Address(c) )
              => /\ calls[d].read.err = NoError
                 /\ calls[d].read.data = ExpectedObject(c)
                 /\ ~calls[d].stale =>
                        /\ calls[d].err = NoError
                        /\ calls[d].result =
                              Delivered(Payload(calls[c].value), calls[d].currentOptions)
                        /\ ( /\ calls[c].value.kind = "string"
                             /\ calls[d].currentOptions.stringifyResponses )
                           => calls[d].result = calls[c].value

OverwriteWitness ==
    \E c \in Slots :
        /\ Overwriting(c)
        /\ "Expires" \in DOMAIN calls[c].before
        /\ calls[c].before.Expires * MsPerSecond < calls[c].t0
        /\ "Expires" \notin DOMAIN ExpectedObject(c)
        /\ c + 1 \in Slots
        /\ calls[c + 1].op = "get" /\ Ran(c + 1) /\ calls[c + 1].key = calls[c].key
        /\ calls[c + 1].result = calls[c].value

-----------------------------------------------------------------------------
(* C9: del is idempotent.  A del without options on an absent key leaves   *)
(* the bucket unchanged; a del none of whose requests failed delivers no   *)
(* error, also when it follows a del of the same key; and a get made after *)
(* a del of a present object reports the key absent.                       *)

DelThenGet(c) ==
    /\ Follows(c)
    /\ calls[c - 1].op = "del" /\ calls[c].op = "get"
    /\ calls[c - 1].opts = NoOptions /\ Plain(calls[c].opts)
    /\ calls[c - 1].had

DelIdempotentState ==
    /\ \A c \in Slots : (Ran(c) /\ calls[c].op = "del") => calls[c].err = NoError
    /\ \A c \in Slots : DelThenGet(c) =>
          /\ calls[c].read.err = NotFound
          /\ calls[c].err = NoError /\ calls[c].result = Null

DelIdempotentStep ==
    \A c \in Slots :
        ( /\ calls'[c].op = "del" /\ calls'[c] # calls[c]
          /\ calls'[c].opts = NoOptions
          /\ GetPath(options, calls'[c].key, options) \notin DOMAIN store )
        => store' = store

\* C9: del never errors on its own, removes nothing when the key is absent,
\* and a get after it reports the key absent
DelIdempotent == []DelIdempotentState /\ [][DelIdempotentStep]_vars

DelIdempotentWitness ==
    \E c \in Slots :
        /\ Follows(c)
        /\ calls[c - 1].op = "del" /\ calls[c - 1].had /\ calls[c - 1].opts = NoOptions
        /\ calls[c].op = "del" /\ ~calls[c].had /\ calls[c].opts = NoOptions
        /\ calls[c].err = NoError

-----------------------------------------------------------------------------
(* C10: the request of a get, set, del, head or ttl called with per-call   *)
(* options addresses the physical key derived from the key and the         *)
(* instance options overridden by the per-call options.                    *)

AddressedByMergedOptions ==
    \A c \in Slots :
        ( /\ calls[c].pc # "idle"
          /\ ~(calls[c].op = "get" /\ calls[c].api = "deleteObject") )
        => calls[c].req.Key = Address(c)

-----------------------------------------------------------------------------
(* C17: head and ttl of a key that is not stored deliver the service's     *)
(* not-found error to the callback (ttl with the value -1, head with no    *)
(* result), whereas a get of the same key delivers no error.               *)

NotFoundIsError ==
    \A c \in Slots : Done(c) =>
        /\ (calls[c].op = "head" /\ calls[c].resp.err = NotFound) =>
              calls[c].err = NotFound /\ calls[c].result = Null
        /\ (calls[c].op = "ttl" /\ calls[c].resp.err = NotFound) =>
              calls[c].err = NotFound /\ calls[c].result = Number(-1)
        /\ (calls[c].op = "get" /\ calls[c].read.err = NotFound) =>
              calls[c].err = NoError
        /\ ( /\ calls[c].op \in {"head", "ttl"} /\ calls[c].opts = NoOptions
             /\ ~calls[c].faulted /\ ~calls[c].had )
           => calls[c].err = NotFound

NotFoundIsErrorWitness ==
    \E c \in Slots :
        /\ Follows(c)
        /\ calls[c - 1].op = "ttl" /\ calls[c - 1].opts = NoOptions
        /\ ~calls[c - 1].had
        /\ calls[c - 1].err = NotFound /\ calls[c - 1].result = Number(-1)
        /\ calls[c].op = "get" /\ calls[c].opts = NoOptions
        /\ calls[c].read.err = NotFound /\ calls[c].err = NoError

-----------------------------------------------------------------------------
(* C18: ttl of a stored object that has no expiry delivers no error and    *)
(* -1, in particular after a set with no ttl in effect; ttl of an object   *)
(* with an expiry delivers that expiry, in epoch seconds.                  *)

SetThenTtlNoExpiry(c) ==
    /\ Follows(c)
    /\ calls[c - 1].op = "set" /\ calls[c].op = "ttl"
    /\ Plain(calls[c - 1].opts) /\ calls[c].opts = NoOptions
    /\ calls[c - 1].currentOptions.ttl = 0

TtlSentinel ==
    /\ \A c \in Slots :
          ( /\ Done(c) /\ calls[c].op = "ttl" /\ calls[c].opts = NoOptions
            /\ ~calls[c].faulted /\ calls[c].had )
          => /\ calls[c].err = NoError
             /\ calls[c].result =
                   IF "Expires" \in DOMAIN calls[c].before
                   THEN Number(calls[c].before.Expires)
                   ELSE Number(-1)
    /\ \A c \in Slots : SetThenTtlNoExpiry(c) =>
          calls[c].had /\ calls[c].err = NoError /\ calls[c].result = Number(-1)

TtlSentinelWitness ==
    \E c \in Slots :
        /\ SetThenTtlNoExpiry(c)
        /\ calls[c - 1].had /\ "Expires" \in DOMAIN calls[c - 1].before
        /\ calls[c].had /\ "Expires" \notin DOMAIN calls[c].before
        /\ calls[c].err = NoError /\ calls[c].result = Number(-1)

-----------------------------------------------------------------------------
(* C20: with normalizeLowercase in effect, two keys that differ only in    *)
(* letter case derive the same physical key under the same options, and a  *)
(* get with a case variant of the key of the set before it delivers the    *)
(* value set (unless the entry has expired meanwhile).                     *)

\* two strings that differ at most in the case of their ASCII letters
SameButCase(a, b) ==
    /\ Len(a) = Len(b)
    /\ \A i \in 1..Len(a) :
          \/ a[i] = b[i]
          \/ a[i] \in 65..90 /\ b[i] = a[i] + 32
          \/ b[i] \in 65..90 /\ a[i] = b[i] + 32

CaseVariants(c, d) ==
    /\ calls[c].pc # "idle" /\ calls[d].pc # "idle"
    /\ SameButCase(calls[c].key.data, calls[d].key.data)
    /\ calls[c].currentOptions.normalizeLowercase
    /\ calls[d].currentOptions.normalizeLowercase

SetThenGetVariant(c) ==
    /\ c - 1 \in Slots
    /\ Alone(c - 1) /\ Ran(c - 1) /\ Alone(c) /\ Ran(c)
    /\ calls[c - 1].op = "set" /\ calls[c].op = "get"
    /\ calls[c].opts = calls[c - 1].opts
    /\ CaseVariants(c - 1, c)

CaseInsensitive ==
    /\ \A c, d \in Slots :
          ( /\ CaseVariants(c, d)
            /\ [f \in AddressingFields \cap DOMAIN calls[c].opts |-> calls[c].opts[f]]
                 = [f \in AddressingFields \cap DOMAIN calls[d].opts |-> calls[d].opts[f]] )
          => Address(c) = Address(d)
    /\ \A c \in Slots : SetThenGetVariant(c) =>
          /\ calls[c].read.err = NoError
          /\ calls[c].read.data.Body = Payload(calls[c - 1].value)
          /\ ~calls[c].stale =>
                /\ calls[c].err = NoError
                /\ calls[c].result =
                      Delivered(Payload(calls[c - 1].value), calls[c].currentOptions)
                /\ ( /\ calls[c - 1].value.kind = "string"
                     /\ calls[c].currentOptions.stringifyResponses )
                   => calls[c].result = calls[c - 1].value

CaseInsensitiveWitness ==
    \E c \in Slots :
        /\ SetThenGetVariant(c)
        /\ calls[c - 1].key = Text(KeyUpper) /\ calls[c].key = Text(KeyLower)
        /\ calls[c - 1].value.kind = "string"
        /\ calls[c].result = calls[c - 1].value

-----------------------------------------------------------------------------
(* C12: in set the per-call s3Options are merged last: every field of      *)
(* s3Options replaces the derived field of the same name in the request.   *)
(* A set with s3Options.Expires = T on an instance with a ttl stores the   *)
(* expiry T, and when T is past a get of the key reads the entry and       *)
(* reports it absent.                                                      *)

SetWithS3Options(c) ==
    /\ calls[c].op = "set" /\ calls[c].pc \notin {"idle", "thrown"}
    /\ "s3Options" \in DOMAIN calls[c].opts

\* the request of the set without its s3Options
DerivedSetRequest(c) ==
    setRequest(calls[c].key, calls[c].value,
               [f \in (DOMAIN calls[c].opts) \ {"s3Options"} |-> calls[c].opts[f]],
               calls[c].t0)

S3OptionsLast ==
    \A c \in Slots : SetWithS3Options(c) =>
        LET s3Options == calls[c].opts.s3Options
            req == calls[c].req
        IN  /\ req = Assign(DerivedSetRequest(c), s3Options)
            /\ \A f \in DOMAIN s3Options : req[f] = s3Options[f]
            /\ \A f \in (DOMAIN DerivedSetRequest(c)) \ DOMAIN s3Options :
                  req[f] = DerivedSetRequest(c)[f]
            /\ (Ran(c) /\ Alone(c) /\ Latest(c)) =>
                  /\ req.Key \in DOMAIN store
                  /\ store[req.Key] = StoredObject(req)
            /\ \A d \in Slots :
                  ( /\ d = c + 1 /\ Ran(c) /\ Alone(c) /\ Ran(d) /\ Alone(d)
                    /\ calls[d].op = "get" /\ calls[d].req.Key = req.Key
                    /\ "Expires" \in DOMAIN s3Options
                    /\ s3Options.Expires * MsPerSecond < calls[c].t0 )
                  => /\ calls[d].read.err = NoError
                     /\ calls[d].read.data.Expires = s3Options.Expires
                     /\ calls[d].err = NoError /\ calls[d].result = Null

S3OptionsLastWitness ==
    \E c \in Slots :
        /\ SetWithS3Options(c) /\ Ran(c) /\ Alone(c)
        /\ options.ttl > 0
        /\ "Expires" \in DOMAIN calls[c].opts.s3Options
        /\ "Expires" \in DOMAIN DerivedSetRequest(c)
        /\ DerivedSetRequest(c).Expires # calls[c].opts.s3Options.Expires
        /\ c + 1 \in Slots /\ Ran(c + 1) /\ calls[c + 1].op = "get"
        /\ calls[c + 1].req.Key = calls[c].req.Key
        /\ calls[c + 1].read.data = [Body |-> Payload(calls[c].value),
                                     Expires |-> calls[c].opts.s3Options.Expires]
        /\ calls[c + 1].err = NoError /\ calls[c + 1].result = Null

-----------------------------------------------------------------------------
(* C13: when the bucket holds more objects than one page and is not        *)
(* modified while keys lists it, keys delivers no error and every stored   *)
(* object exactly once, as the concatenation of the pages in the order in  *)
(* which they were received.                                               *)

QuietKeys(c) ==
    /\ Done(c) /\ calls[c].op = "keys"
    /\ ~calls[c].faulted /\ calls[c].quiet

Pagination ==
    \A c \in Slots : QuietKeys(c) =>
        LET items == calls[c].result.items
        IN  /\ calls[c].err = NoError
            /\ calls[c].result = Array(Flatten(calls[c].pages))
            /\ {items[i].Key : i \in 1..Len(items)} = DOMAIN calls[c].snap
            /\ Len(items) = Cardinality(DOMAIN calls[c].snap)
            /\ \A i, j \in 1..Len(items) : i # j => items[i] # items[j]

PaginationWitness ==
    \E c \in Slots :
        /\ QuietKeys(c)
        /\ Len(calls[c].pages) > 2
        /\ Cardinality(DOMAIN calls[c].snap) > 2 * PageSize
        /\ Len(calls[c].result.items) = Cardinality(DOMAIN calls[c].snap)

-----------------------------------------------------------------------------
(* C14: when reset invokes its callback without error and no set ran       *)
(* while it did, the bucket holds no object; a keys made afterwards        *)
(* delivers the empty list and a get reports its key absent.  This holds   *)
(* for a bucket of several pages.                                          *)

\* no set was in progress while call c was
NoWriteDuring(c) ==
    /\ calls[c].seq \/ \A d \in Slots : d < c => calls[d].op # "set"
    /\ \A d \in Slots :
          (d > c /\ calls[d].pc # "idle") => (calls[d].seq \/ calls[d].op # "set")

ResetSucceeded(c) ==
    /\ Done(c) /\ calls[c].op = "reset" /\ calls[c].err = NoError
    /\ NoWriteDuring(c)

ResetEmptiesState ==
    \A c \in Slots : ResetSucceeded(c) =>
        /\ Latest(c) => store = EmptyStore
        /\ \A d \in Slots :
              (d = c + 1 /\ Alone(d) /\ Ran(d)) =>
                  /\ calls[d].op = "keys" =>
                        calls[d].err = NoError /\ calls[d].result = Array(<<>>)
                  /\ calls[d].op = "get" =>
                        /\ calls[d].read.err = NotFound
                        /\ calls[d].err = NoError /\ calls[d].result = Null

ResetEmptiesStep ==
    \A c \in Slots :
        (calls[c].pc # "done" /\ ResetSucceeded(c)') => store' = EmptyStore

\* C14: a reset that succeeds with no set in progress leaves the bucket empty
ResetEmpties == []ResetEmptiesState /\ [][ResetEmptiesStep]_vars

ResetEmptiesWitness ==
    \E c \in Slots :
        /\ ResetSucceeded(c)
        /\ Cardinality(DOMAIN calls[c].snap) > 2 * PageSize
        /\ Len(calls[c].pages) > 2
        /\ c + 1 \in Slots /\ Alone(c + 1) /\ Ran(c + 1)
        /\ calls[c + 1].op = "keys" /\ calls[c + 1].result = Array(<<>>)
        /\ store = EmptyStore

-----------------------------------------------------------------------------
(* C15: when a batch delete of reset fails, reset invokes its callback     *)
(* with the error only after the batch delete of every listed page has     *)
(* been sent and has completed.                                            *)

ResetErrorAfterAll ==
    \A c \in Slots :
        ( /\ Done(c) /\ calls[c].op = "reset" /\ calls[c].err # NoError
          /\ calls[c].batches # <<>> )
        => \A i \in DOMAIN calls[c].batches : calls[c].batches[i].pc = "finished"

-----------------------------------------------------------------------------
(* C16: errors of the backend are passed on unchanged and nothing is       *)
(* retried.                                                                *)

PassesErrorsOn == {"get", "set", "del", "head", "ttl", "keys"}

\* the last response of the call is an error the call has to pass on
BackendError(c) ==
    /\ calls[c].op \in PassesErrorsOn
    /\ calls[c].resp.err # NoError
    /\ ~(calls[c].op = "get" /\ calls[c].resp.err.statusCode = 404)

\* the callback received the error of the response, and keys no list
ErrorDelivered ==
    \A c \in Slots :
        (Done(c) /\ BackendError(c))
        => /\ calls[c].err = calls[c].resp.err
           /\ calls[c].op = "keys" => calls[c].result = Undefined

\* the step a call takes on an error response is its callback: no request follows
ErrorEndsCall ==
    \A c \in Slots :
        (calls[c].pc = "response" /\ BackendError(c))
        => \/ calls'[c] = calls[c]
           \/ calls'[c].pc = "done" /\ calls'[c].req = calls[c].req

\* C16: a backend error (other than not-found on get) of a request of get, set,
\* del, head, ttl or keys is delivered to the callback as the same error value;
\* the request is not issued again, and keys delivers no partial list and asks
\* for no further page.
ErrorsPropagate == []ErrorDelivered /\ [][ErrorEndsCall]_vars

\* keys failed on a later page: the error is delivered without the pages read
ErrorsPropagateWitness ==
    \E c \in Slots :
        /\ Done(c) /\ calls[c].op = "keys"
        /\ calls[c].pages # <<>>
        /\ calls[c].err = IOError /\ calls[c].result = Undefined

-----------------------------------------------------------------------------
(* C19: keys and values of the wrong type.                                 *)

\* the call was given a key that is no string, or set a value that is neither a
\* string nor bytes
WrongTyped(c) ==
    /\ calls[c].pc # "idle"
    /\ calls[c].op \in {"get", "set", "del", "head"}
    /\ \/ calls[c].key.kind # "string"
       \/ calls[c].op = "set" /\ calls[c].value.kind \notin {"string", "buffer"}

\* C19: get, set, del and head with a non-string key, and set with a value that
\* is neither a string nor bytes, throw synchronously: no request is issued and
\* no callback is invoked.
WrongTypeThrows ==
    \A c \in Slots : WrongTyped(c) => calls[c].pc = "thrown"

-----------------------------------------------------------------------------
(* C11: the pathPrefix of the per-call options.                            *)

\* the physical key of the call without any prefix
Unprefixed(c) ==
    GetPath(options, calls[c].key, [calls[c].currentOptions EXCEPT !.pathPrefix = <<>>])

\* C11: a pathPrefix in the per-call options takes precedence over the one of the
\* instance: the physical key is prefixed with the per-call value, also when the
\* instance has no prefix, and has no prefix when the per-call value is empty.
PerCallPrefix ==
    \A c \in Slots :
        ( /\ calls[c].pc \notin {"idle", "thrown"}
          /\ calls[c].op \in {"get", "set"}
          /\ "pathPrefix" \in DOMAIN calls[c].opts )
        => calls[c].req.Key =
               IF calls[c].opts.pathPrefix = <<>> THEN Unprefixed(c)
               ELSE PathJoin(calls[c].opts.pathPrefix, Unprefixed(c))

-----------------------------------------------------------------------------
(* C21 to C24: the derivation of the physical key.                         *)

\* the call has derived a physical key
Derived(c) == calls[c].pc \notin {"idle", "thrown"} /\ calls[c].op \in {"get", "set"}

\* the key of the call after normalization, and after the checksum step
NormalKey(c) == Normalized(calls[c].key, calls[c].currentOptions)
K(c) == toString(PostChecksum(NormalKey(c), calls[c].currentOptions))

\* C21: under one configuration two keys that differ after normalization derive
\* different physical keys, provided their digests do not collide; without a
\* checksum whenever the normalized keys differ, whatever the folder options
\* and the prefix.
Injective ==
    \A c, d \in Slots :
        ( /\ Derived(c) /\ Derived(d)
          /\ calls[c].currentOptions = calls[d].currentOptions
          /\ NormalKey(c) # NormalKey(d)
          /\ K(c) # K(d) )
        => calls[c].req.Key # calls[d].req.Key

\* the two URLs have the same path and the same query parameters, with distinct
\* names, in any order
SameButOrder(a, b) ==
    LET qa == IndexOf(a, 63)
        qb == IndexOf(b, 63)
        pa == Pieces(SubSeq(a, qa + 1, Len(a)), 38)
        pb == Pieces(SubSeq(b, qb + 1, Len(b)), 38)
    IN  /\ qa > 0 /\ qb = qa
        /\ SubSeq(a, 1, qa) = SubSeq(b, 1, qb)
        /\ Len(pa) = Len(pb)
        /\ {pa[i] : i \in 1..Len(pa)} = {pb[i] : i \in 1..Len(pb)}
        /\ \A i, j \in 1..Len(pa) :
              i # j => SubSeq(pa[i], 1, IndexOf(pa[i], EQUALS))
                          # SubSeq(pa[j], 1, IndexOf(pa[j], EQUALS))

OrderVariants(c, d) ==
    /\ Derived(c) /\ Derived(d)
    /\ calls[c].currentOptions = calls[d].currentOptions
    /\ calls[c].currentOptions.parseKeyAsUrl /\ calls[c].currentOptions.normalizeUrl
    /\ SameButOrder(calls[c].key.data, calls[d].key.data)

\* C22: with parseKeyAsUrl and normalizeUrl, two URLs that differ only in the
\* order of their query parameters derive the same physical key, and a get of
\* one after a set of the other delivers the stored value.
QueryOrderIgnored ==
    /\ \A c, d \in Slots : OrderVariants(c, d) => calls[c].req.Key = calls[d].req.Key
    /\ \A c \in Slots :
          ( /\ c - 1 \in Slots
            /\ OrderVariants(c - 1, c)
            /\ calls[c - 1].op = "set" /\ calls[c].op = "get"
            /\ Alone(c - 1) /\ Ran(c - 1) /\ Alone(c) /\ Ran(c) )
          => /\ calls[c].err = NoError
             /\ calls[c].result = calls[c - 1].value

\* a get of the URL with the parameters in the other order found the value
QueryOrderIgnoredWitness ==
    \E c \in Slots :
        /\ c - 1 \in Slots
        /\ OrderVariants(c - 1, c)
        /\ calls[c - 1].key # calls[c].key
        /\ calls[c - 1].op = "set" /\ calls[c].op = "get"
        /\ Alone(c - 1) /\ Ran(c - 1) /\ Alone(c) /\ Ran(c)
        /\ calls[c].result = calls[c - 1].value

\* chunk_i: the characters of k from offset i * size, at most size of them
Chunk(k, i, size) ==
    LET n == IF Len(k) - i * size < 0 THEN 0
             ELSE IF Len(k) - i * size < size THEN Len(k) - i * size
             ELSE size
    IN  [j \in 1..n |-> k[i * size + j]]

\* chunk_0/.../chunk_(depth - 1)/ : every chunk followed by a separator
RECURSIVE Folders(_, _, _)
Folders(k, depth, size) ==
    IF depth = 0 THEN <<>>
    ELSE Folders(k, depth - 1, size) \o Chunk(k, depth - 1, size) \o <<SLASH>>

NoFolders ==
    \A c \in Slots :
        ( /\ Derived(c)
          /\ calls[c].currentOptions.pathPrefix = <<>>
          /\ \/ calls[c].currentOptions.folderPathDepth = 0
             \/ calls[c].currentOptions.folderPathChunkSize = 0 )
        => calls[c].req.Key = K(c)

-----------------------------------------------------------------------------
(* C27: the value get delivers for a key that is not stored.               *)

\* C27: get of a key that is not stored delivers no error and the value
\* undefined, not null.
MissIsUndefined ==
    \A c \in Slots :
        ( /\ Done(c) /\ calls[c].op = "get"
          /\ calls[c].api = "getObject"
          /\ calls[c].resp.err = NotFound )
        => /\ calls[c].err = NoError
           /\ calls[c].result = Undefined

-----------------------------------------------------------------------------
(* C25: stringifyResponses.                                                *)

\* the get reads what the set before it stored: same physical key, no request
\* override, no error, not expired
SetThenRead(c) ==
    /\ Follows(c)
    /\ calls[c - 1].op = "set" /\ calls[c].op = "get"
    /\ Address(c) = Address(c - 1)
    /\ "s3Options" \notin DOMAIN calls[c].opts
    /\ "s3Options" \notin DOMAIN calls[c - 1].opts
    /\ ~calls[c].stale

\* C25: with stringifyResponses false (of the instance or of the get) get
\* delivers the bytes given to set, unmodified and as a byte buffer, for text
\* and binary values alike; with stringifyResponses true it delivers the text
\* decoding of the stored bytes, which is the original for a text value.
ByteExact ==
    \A c \in Slots : SetThenRead(c) =>
        LET v == calls[c - 1].value
            given == IF v.kind = "buffer" THEN v.data ELSE BufferFrom(v.data)
        IN  /\ calls[c].err = NoError
            /\ IF calls[c].currentOptions.stringifyResponses
               THEN /\ calls[c].result = Text(BufferToString(given))
                    /\ v.kind = "string" => calls[c].result = v
               ELSE calls[c].result = Bytes(given)

\* a binary value that is no valid UTF-8 came back as the same bytes from a get
\* whose own options turn stringifyResponses off
ByteExactWitness ==
    \E c \in Slots :
        /\ SetThenRead(c)
        /\ calls[c - 1].value = Bytes(<<255>>)
        /\ options.stringifyResponses
        /\ ~calls[c].currentOptions.stringifyResponses
        /\ calls[c].result = Bytes(<<255>>)

-----------------------------------------------------------------------------
(* C30: the object get's proactive expiry deletes.                         *)

\* C30: the delete request of get's proactive expiry addresses the physical key
\* of the retrieve request that returned the expired entry, also when the get
\* was given addressing options of its own.
DeletesWhatItRead ==
    \A c \in Slots :
        (calls[c].op = "get" /\ calls[c].api = "deleteObject")
        => calls[c].req.Key = getRequest(calls[c].key, calls[c].opts).Key

-----------------------------------------------------------------------------
(* C26: the calls leave the configuration alone.                           *)

\* a call without options of its own works with the options of the instance
InstanceOptionsUsed ==
    \A c \in Slots :
        (calls[c].pc # "idle" /\ calls[c].opts = NoOptions)
        => calls[c].currentOptions = options

\* no step of a call changes this.options or the client
ConfigurationKept == options' = options /\ s3' = s3

\* C26: no get, set, del, keys, head, ttl or reset changes the configuration of
\* the instance or the construction parameters of the client: per-call options
\* (s3Options included) act on their call only, and a later call without
\* options works as if the earlier one had been given none.
CallsAreStateless == []InstanceOptionsUsed /\ [][ConfigurationKept]_vars

\* a set with s3Options of its own has completed, and the call after it, made
\* without options, works with the options of the instance
CallsAreStatelessWitness ==
    \E c \in Slots :
        /\ c - 1 \in Slots
        /\ Done(c - 1) /\ "s3Options" \in DOMAIN calls[c - 1].opts
        /\ Done(c) /\ calls[c].opts = NoOptions
        /\ calls[c].currentOptions = options
        /\ "s3Options" \notin DOMAIN options

-----------------------------------------------------------------------------
(* C28 and C29: the constructor.                                           *)

\* the parameter was not given, or given empty
Lacks(param) == param \notin DOMAIN s3.given \/ s3.given[param] = <<>>

\* s3Options were given, and are no object or are null
BadS3Options ==
    /\ "s3Options" \in DOMAIN s3.given
    /\ s3.given.s3Options.kind \in {"number", "string", "undefined", "false", "null"}

\* C28: the construction throws, with no client created and nothing requested,
\* when accessKey, secretKey or bucket is missing or empty, or when s3Options
\* is given and is not a non-null object; otherwise it succeeds.
ConstructionFailsFast ==
    s3.state # "none" =>
        /\ (s3.state = "thrown")
              <=> (Lacks("accessKey") \/ Lacks("secretKey") \/ Lacks("bucket") \/ BadS3Options)
        /\ s3.state = "thrown" =>
              /\ s3.config = NoOptions
              /\ store = EmptyStore
              /\ \A c \in Slots : calls[c].pc = "idle"
        /\ s3.state = "client" => "params" \in DOMAIN s3.config

\* the three parameters were given, the s3Options are a number: it threw
ConstructionFailsFastWitness ==
    /\ s3.state = "thrown"
    /\ ~Lacks("accessKey") /\ ~Lacks("secretKey") /\ ~Lacks("bucket")
    /\ BadS3Options

\* the params given in s3Options, none if there are none
GivenParams ==
    IF "s3Options" \in DOMAIN s3.given /\ "params" \in DOMAIN s3.given.s3Options.obj
    THEN s3.given.s3Options.obj.params
    ELSE NoOptions

\* C29: the default request parameters of the client are {Bucket: bucket}
\* overridden field by field by s3Options.params: a Bucket given there wins,
\* and without one the bucket of the instance stands beside the other params.
ParamsMerged ==
    s3.state = "client" =>
        /\ DOMAIN s3.config.params = {"Bucket"} \cup DOMAIN GivenParams
        /\ \A f \in DOMAIN s3.config.params :
              s3.config.params[f] =
                  IF f \in DOMAIN GivenParams THEN GivenParams[f] ELSE s3.given.bucket

\* params without a Bucket were given: the client has both
ParamsMergedWitness ==
    /\ s3.state = "client"
    /\ GivenParams # NoOptions /\ "Bucket" \notin DOMAIN GivenParams
    /\ s3.config.params.Bucket = s3.given.bucket
    /\ DOMAIN s3.config.params # {"Bucket"}

-----------------------------------------------------------------------------
(* C31: the proactive delete of get and a set that completes in between.   *)

\* the delete request of the get goes to the key of its retrieve request
DeletesAtReadKey(c) ==
    /\ calls[c].op = "get"
    /\ Requested(c, "deleteObject")
    /\ calls[c].req.Key = getRequest(calls[c].key, calls[c].opts).Key

\* C31: the delete request of a get removes nothing but the expired object the
\* get read: an object written to the key since the retrieve request stays.
LiveEntryKept ==
    [][\A c \in Slots :
          ( /\ DeletesAtReadKey(c)
            /\ calls'[c].pc = "response"
            /\ calls[c].req.Key \in DOMAIN store
            /\ calls[c].req.Key \notin DOMAIN store' )
          => store[calls[c].req.Key] = calls[c].read.data]_vars

-----------------------------------------------------------------------------
(* C32: the list requests of one keys (or reset) invocation.               *)

\* the step sends a list request of the call
ListRequestIssued(c) ==
    /\ calls'[c] # calls[c]
    /\ calls'[c].pc = "request"
    /\ calls'[c].api = "listObjectsV2"

\* C32: a list request is sent either when the call starts, and then without a
\* continuation token, or by the callback of the preceding list request, and
\* then only after a response without error whose IsTruncated is true, with
\* exactly the NextContinuationToken of that response: one request at a time,
\* none after the last page, none after an error.
SerialListing ==
    [][\A c \in Slots :
          ListRequestIssued(c) =>
              \/ /\ calls[c].pc = "idle"
                 /\ "ContinuationToken" \notin DOMAIN calls'[c].req
              \/ /\ calls[c].pc = "response" /\ calls[c].api = "listObjectsV2"
                 /\ calls[c].resp.err = NoError
                 /\ calls[c].resp.data.IsTruncated
                 /\ "ContinuationToken" \in DOMAIN calls'[c].req
                 /\ calls'[c].req.ContinuationToken =
                        calls[c].resp.data.NextContinuationToken]_vars

\* a keys call has sent its third list request, with the token of the second page
SerialListingWitness ==
    \E c \in Slots :
        /\ calls[c].op = "keys" /\ calls[c].pc = "request"
        /\ Len(calls[c].pages) = 2
        /\ "ContinuationToken" \in DOMAIN calls[c].req
        /\ calls[c].req.ContinuationToken = calls[c].pages[2][PageSize].Key

-----------------------------------------------------------------------------
(* C33: the batch deletes of reset.                                        *)

\* the batch deletes of the call that are sent and not yet called back
Outstanding(c) ==
    {i \in DOMAIN calls[c].batches : calls[c].batches[i].pc \in {"request", "response"}}

\* the keys of the entries of a list page, in their order
PageKeys(page) == [j \in 1..Len(page) |-> page[j].Key]

\* C33: a reset has at most two batch deletes outstanding at any moment; each
\* batch delete names exactly the entries of one list page, in their order,
\* hence at most a page of them; a page without entries sends no request.
BatchesBounded ==
    \A c \in Slots :
        calls[c].op = "reset" =>
            /\ Cardinality(Outstanding(c)) <= MapLimit
            /\ \A i \in DOMAIN calls[c].batches :
                  LET batch == calls[c].batches[i]
                      page == calls[c].pages[i]
                  IN  IF page = <<>>
                      THEN batch.pc \in {"waiting", "finished"} /\ batch.req = NoData
                      ELSE batch.pc # "waiting" =>
                              /\ DOMAIN batch.req = {"Delete"}
                              /\ PageKeys(batch.req.Delete.Objects) = PageKeys(page)
                              /\ Len(batch.req.Delete.Objects) <= PageSize

\* a reset of three pages: two batch deletes are outstanding, the third waits
BatchesBoundedWitness ==
    \E c \in Slots :
        /\ calls[c].op = "reset"
        /\ Len(calls[c].batches) = 3
        /\ Cardinality(Outstanding(c)) = MapLimit
        /\ calls[c].batches[3].pc = "waiting"

-----------------------------------------------------------------------------
(* C34: a batch delete of reset answered with partial errors.              *)

\* the response of the batch delete reports objects that were not deleted
PartialErrors(batch) ==
    /\ batch.pc \in {"response", "finished"}
    /\ batch.err = NoError
    /\ batch.data.kind = "object"
    /\ "Errors" \in DOMAIN batch.data.obj
    /\ batch.data.obj.Errors # <<>>

\* C34: a reset whose callback received no error had no batch delete answered
\* with partial errors: success is reported only when every listed object was
\* deleted.
PartialErrorsReported ==
    \A c \in Slots :
        (Done(c) /\ calls[c].op = "reset" /\ calls[c].err = NoError)
        => \A i \in DOMAIN calls[c].batches : ~PartialErrors(calls[c].batches[i])

-----------------------------------------------------------------------------
(* C35: reset deletes what its listing found.                              *)

\* the keys the listing of the call has received
Listed(c) ==
    UNION {{calls[c].pages[i][j].Key : j \in 1..Len(calls[c].pages[i])} :
              i \in 1..Len(calls[c].pages)}

\* the keys named in the batch deletes the call has sent
Named(c) ==
    UNION {{calls[c].batches[i].req.Delete.Objects[j].Key :
               j \in 1..Len(calls[c].batches[i].req.Delete.Objects)} :
              i \in {k \in DOMAIN calls[c].batches : calls[c].batches[k].req # NoData}}

\* the reset has called back without error
ResetDone(c) == Done(c) /\ calls[c].op = "reset" /\ calls[c].err = NoError

\* set d stored, without error, an object that the listing of reset c did not
\* find, and no third call deletes
StoredUnlisted(c, d) ==
    /\ ResetDone(c)
    /\ Done(d) /\ calls[d].op = "set" /\ calls[d].err = NoError
    /\ calls[d].req.Key \notin Listed(c)
    /\ \A e \in Slots \ {c, d} : calls[e].op \in {"none", "set", "head", "ttl", "keys"}

\* C35: a reset has batch deletes only once its listing has received the last
\* page (a response that is not truncated); its batch deletes name listed keys
\* only, and all of them once it has called back without error; an object that a
\* set stored after the listing passed its position is in the bucket after the
\* reset reported success.
DeletesTheListed ==
    \A c \in Slots :
        calls[c].op = "reset" =>
            /\ calls[c].batches # <<>> =>
                  /\ calls[c].resp.err = NoError
                  /\ ~calls[c].resp.data.IsTruncated
                  /\ Len(calls[c].batches) = Len(calls[c].pages)
            /\ Named(c) \subseteq Listed(c)
            /\ ResetDone(c) => Named(c) = Listed(c)
            /\ \A d \in Slots :
                  StoredUnlisted(c, d) => calls[d].req.Key \in DOMAIN store

\* a reset of three pages reported success; a set that ran meanwhile stored an
\* object the listing had passed, and the object is in the bucket
DeletesTheListedWitness ==
    \E c, d \in Slots :
        /\ StoredUnlisted(c, d)
        /\ Len(calls[c].pages) = 3
        /\ ~(calls[c].seq /\ calls[d].seq)
        /\ calls[d].req.Key \in DOMAIN store

-----------------------------------------------------------------------------
(* C36: no page is requested twice.                                        *)

\* C36: of the list requests of one keys or reset invocation only the first is
\* sent without a continuation token, also when the service answers with a
\* truncated page whose NextContinuationToken is missing or empty: the first
\* page is not requested again.
FirstPageOnce ==
    [][\A c \in Slots :
          (ListRequestIssued(c) /\ calls[c].pc # "idle")
          => "ContinuationToken" \in DOMAIN calls'[c].req]_vars

-----------------------------------------------------------------------------
(* C37: the callback of a call is invoked exactly once.                    *)

\* the call was made and did not throw while it built its request
Accepted(c) == calls[c].pc \notin {"idle", "thrown"}

\* the call waits for the answer to a request it sent, or an answer it received
\* waits for the callback the call gave with the request
Awaiting(c) ==
    \/ /\ calls[c].pc = "request"
       /\ calls[c].api \in {"getObject", "putObject", "deleteObject", "headObject",
                            "listObjectsV2"}
    \/ /\ calls[c].pc = "response"
       /\ <<calls[c].op, calls[c].api>> \in
              { <<"get", "getObject">>, <<"get", "deleteObject">>,
                <<"set", "putObject">>, <<"del", "deleteObject">>,
                <<"head", "headObject">>, <<"ttl", "headObject">>,
                <<"keys", "listObjectsV2">>, <<"reset", "listObjectsV2">> }
    \/ /\ calls[c].pc = "deleting"
       /\ calls[c].op = "reset"
       /\ \E i \in DOMAIN calls[c].batches :
              calls[c].batches[i].pc \in {"request", "response"}

\* the callback was invoked at most once; a call whose callback was invoked is
\* over; a call whose callback was not invoked is not at rest
CallbackCounted ==
    \A c \in Slots :
        /\ calls[c].cbs \in {0, 1}
        /\ calls[c].cbs = 1 <=> Done(c)
        /\ (Accepted(c) /\ calls[c].cbs = 0) => Awaiting(c)

\* an invocation of the callback is not taken back, and it hands over the
\* error of the call or its result
CallbackKept ==
    \A c \in Slots :
        /\ calls'[c].cbs >= calls[c].cbs
        /\ calls[c].cbs = 1 =>
               calls'[c].err = calls[c].err /\ calls'[c].result = calls[c].result

-----------------------------------------------------------------------------
(* C38: an expired entry that is still stored, seen by head, ttl and keys. *)

\* the stored object has an expiry, and the expiry has passed
Outlived(object) ==
    "Expires" \in DOMAIN object /\ object.Expires * MsPerSecond < now

\* the call ran undisturbed, and the bucket held an expired object under its
\* key when the request was answered
FoundOutlived(c) ==
    /\ Alone(c) /\ Ran(c)
    /\ calls[c].had /\ Outlived(calls[c].before)

\* C38: of an entry whose expiry has passed and that is still stored, head
\* delivers the metadata without error, ttl delivers the past expiry timestamp
\* without error, and keys lists the key: only get enforces the expiry.
ExpiryOnlyInGet ==
    \A c \in Slots :
        /\ (calls[c].op = "head" /\ FoundOutlived(c)) =>
              /\ calls[c].err = NoError
              /\ calls[c].result.kind = "object"
              /\ calls[c].result.obj = [f \in DOMAIN calls[c].before \ {"Body"} |->
                                           calls[c].before[f]]
        /\ (calls[c].op = "ttl" /\ FoundOutlived(c)) =>
              /\ calls[c].err = NoError
              /\ calls[c].result = Number(calls[c].before.Expires)
        /\ QuietKeys(c) =>
              \A k \in DOMAIN calls[c].snap :
                  Outlived(calls[c].snap[k]) =>
                      \E i \in 1..Len(calls[c].result.items) :
                          calls[c].result.items[i].Key = k

\* head has delivered the metadata of an entry whose expiry has passed
ExpiryOnlyInGetWitness ==
    \E c \in Slots :
        /\ calls[c].op = "head" /\ FoundOutlived(c)
        /\ calls[c].err = NoError
        /\ calls[c].result.obj.Expires * MsPerSecond < now

-----------------------------------------------------------------------------
(* C39: the options of the caller after a construction.                    *)

\* C39: a construction leaves the s3Options object of the caller as it was, so
\* that an instance constructed next from the same s3Options object, whose
\* params name no Bucket, with another bucket addresses the bucket it was given.
OwnBucket ==
    [][( /\ s3.state = "client" /\ s3'.state = "client"
         /\ s3'.given.bucket # s3.given.bucket
         /\ "Bucket" \notin DOMAIN GivenParams )
       => /\ s3'.given = [s3.given EXCEPT !.bucket = s3'.given.bucket]
          /\ s3'.config.params.Bucket = s3'.given.bucket]_vars

====
